---- MODULE Spec2Model ----
(***************************************************************************)
(* Model of adwords_client.client.AdWords: the operation log (insert,     *)
(* clear, count_table, iter_operations_table), the batch dispatcher       *)
(* (_setup_operations, _execute_operations, log_batchjob) and the job     *)
(* tracker (wait_jobs, _collect_jobs, _update_jobs, _update_jobs_status). *)
(*                                                                         *)
(* The client is single threaded: pc is the position of the one caller.   *)
(* The table store (adwords_client.sqlite) and the remote BatchJobService *)
(* are not part of the modelled file; they are modelled from their use in *)
(* client.py and from the design document.                                *)
(***************************************************************************)
EXTENDS Integers, Sequences, FiniteSets, TLC

\* ------------------------------------------------------------------ bounds
\* rows one table may hold
MaxRecords == 3
\* records passed to one insert call as a list
MaxList == 2
\* columns one get_min_value call is given
MaxColumns == 3
\* wire operations (or empty results) one builder call yields
MaxYield == 2
\* remote jobs created over one behaviour
MaxJobs == 3
\* poll cycles of one wait_jobs call
MaxCycles == 2
\* poll cycles of one wait_jobs call when only the sleeps are followed
MaxSleeps == 4
\* chunk size of _execute_operations, scaled down from 5000 so that several
\* chunks fit into MaxRecords * MaxYield wire operations
batch_size == 2

\* --------------------------------------------------------------- values
\* Python values stored in operation dicts.  Numbers are kept in halves so
\* that floor() is not the identity: Num(h) is the number h / 2.
None == [kind |-> "None"]
NaN == [kind |-> "nan"]
Num(h) == [kind |-> "num", halves |-> h]
IntVal(i) == Num(2 * i)
Str(s) == [kind |-> "str", s |-> s]

Accounts == {1, 2}
OpsTables == {"ops", "ops2"}
BatchlogTable == "batchlog_table"
TableNames == OpsTables \cup {BatchlogTable}

\* int(floor(u)) of a number
Floor(v) == v.halves \div 2

Min(S) == CHOOSE m \in S : \A n \in S : m <= n

VARIABLES
    tables,         \* the table store: name -> [exists, rows]
    table_models,   \* self.table_models: names with a cached table handle
    table_min_id,   \* self.table_min_id: name -> cached minimum id
    inserted,       \* history: entries passed to successful inserts, per table
    dropped,        \* history: the tables clear was called for
    attempts,       \* history: the tables insert was called for by this
                    \* instance since their last clear
    passed_min,     \* history: per table, the least of 0 and the floored finite
                    \* non-zero numbers of the entries passed to insert or
                    \* dump_table by this instance since the last clear
    error,          \* outcome of the last finished call
    pc,             \* position of the caller
    log_table,      \* the table_name argument of the dispatch run, or "None"
    bjs,            \* _execute_operations: the batch service, or "None"
    operations,     \* _execute_operations: the stream, as read at setup
    pos,            \* _execute_operations: index of the next record of the stream
    previous_client_id, \* _execute_operations: local of the same name
    in_batch,       \* _execute_operations: local of the same name
    remote_jobs,    \* remote service: the jobs created so far, id = index
    min_call,       \* get_min_value: the call in progress or returned, with the
                    \* outcomes of its column queries, its position and min_value
    interrupted,    \* history: the job being filled when the builder raised in
                    \* the last dispatch run, 0 when it did not
    buffer,         \* bjs.helper: number of operations added and not yet uploaded
    calls,          \* history: remote and ledger calls of the current dispatch run
    run_base,       \* history: number of remote jobs when the current run started
    jobs,           \* wait_jobs: the collection [pending, dirty, done]
    sleep_time,     \* wait_jobs: local of the same name
    wait_bjs,       \* wait_jobs: local bjs, "None" until the first poll
    slept,          \* history: the sleeps of the current wait_jobs call
    n_queries,      \* history: status queries of the current wait_jobs call
    cur_dirty,      \* history: (client, job, status) items of the last response
    same_again,     \* history: items of the last response already in the one before
    last_updates,   \* history: row ids written by the last reconcile
    term_updates,   \* history: row id -> terminal updates written in this call
    collected,      \* history: the (client, job) pairs pending at _collect_jobs
    ledger0         \* history: the ledger rows when wait_jobs was called

logvars == <<tables, table_models, table_min_id, inserted, dropped, attempts, passed_min>>
execvars == <<log_table, bjs, operations, pos, previous_client_id, in_batch,
              buffer, calls, run_base>>
waitvars == <<jobs, sleep_time, wait_bjs, slept, n_queries, cur_dirty, same_again,
              last_updates, term_updates, collected, ledger0>>
vars == <<tables, table_models, table_min_id, inserted, dropped, attempts, passed_min, error, pc,
          log_table, bjs, operations, pos, previous_client_id, in_batch,
          remote_jobs, interrupted, min_call, buffer, calls, run_base,
          jobs, sleep_time, wait_bjs, slept, n_queries, cur_dirty, same_again,
          last_updates, term_updates, collected, ledger0>>

\* ------------------------------------------------------------ table store
NoTable == [exists |-> FALSE, rows |-> <<>>]

\* json.dumps / json.loads of a dict: the text is the set of its items
json_dumps(d) == {<<k, d[k]>> : k \in DOMAIN d}
json_loads(txt) == [k \in {p[1] : p \in txt} |-> (CHOOSE p \in txt : p[1] = k)[2]]

\* create_operations_table: DROP TABLE IF EXISTS on 'replace', then
\* CREATE TABLE IF NOT EXISTS (id INTEGER PRIMARY KEY AUTOINCREMENT,
\* client_id INTEGER, operation text)
create_operations_table(tbls, table_name, if_exists) ==
    IF if_exists = "replace" \/ ~tbls[table_name].exists
    THEN [tbls EXCEPT ![table_name] = [exists |-> TRUE, rows |-> <<>>]]
    ELSE tbls

\* _iter_floats over data.values(), already floored: the truthy finite numbers
iter_floats(entry) ==
    {Floor(entry[k]) : k \in {j \in DOMAIN entry :
                                 entry[j].kind = "num" /\ entry[j].halves # 0}}

\* the numbers of an entry that count for the minimum id: its finite
\* non-zero numeric values, floored
NumbersOf(entry) ==
    {entry[k].halves \div 2 : k \in {j \in DOMAIN entry :
                                        /\ entry[j] \notin {None, NaN}
                                        /\ entry[j].kind = "num"
                                        /\ entry[j].halves # 0}}

\* the history of the numbers passed for a table, after a call with entries
note_passed(passed, table_name, entries) ==
    [passed EXCEPT ![table_name] =
        Min({@} \cup UNION {NumbersOf(entries[i]) : i \in 1..Len(entries)})]

\* an entry kept as it is
filter_entry_keeps_all(entry) == entry

\* the dict comprehension of _make_entry: drops None and NaN values
filter_entry(entry) ==
    [k \in {j \in DOMAIN entry : entry[j] # None /\ entry[j] # NaN} |-> entry[k]]

\* a _make_entry that caches the minimum of the entry at hand alone
make_entry_last_min(min_ids, table_name, entry) ==
    LET e == filter_entry(entry)
        fl == iter_floats(e)
        upd == [t \in DOMAIN min_ids \cup {table_name} |->
                   IF t = table_name THEN Min(fl) ELSE min_ids[t]]
    IN  IF fl = {}
        THEN [min_ids |-> min_ids, row |-> <<>>, err |-> "ValueError"]
        ELSE IF "client_id" \notin DOMAIN e
        THEN [min_ids |-> upd, row |-> <<>>, err |-> "KeyError"]
        ELSE [min_ids |-> upd,
              row |-> <<[client_id |-> e["client_id"], operation |-> json_dumps(e)]>>,
              err |-> "none"]

\* _make_entry for one entry; min_ids is self.table_min_id, a dict whose keys
\* are its DOMAIN.  Gives the dict afterwards, the row to insert and the error
make_entry(min_ids, table_name, entry) ==
    LET e == filter_entry(entry)
        fl == iter_floats(e)
        old == IF table_name \in DOMAIN min_ids THEN min_ids[table_name] ELSE 0
        upd == [t \in DOMAIN min_ids \cup {table_name} |->
                   IF t = table_name THEN Min(fl \cup {old}) ELSE min_ids[t]]
    IN  IF fl = {}
        THEN [min_ids |-> min_ids, row |-> <<>>, err |-> "ValueError"]
        ELSE IF "client_id" \notin DOMAIN e
        THEN [min_ids |-> upd, row |-> <<>>, err |-> "KeyError"]
        ELSE [min_ids |-> upd,
              row |-> <<[client_id |-> e["client_id"], operation |-> json_dumps(e)]>>,
              err |-> "none"]

\* the generator over data of insert: entries are made in order until one raises
RECURSIVE make_entries(_, _, _)
make_entries(min_ids, table_name, entries) ==
    IF entries = <<>>
    THEN [min_ids |-> min_ids, rows |-> <<>>, err |-> "none"]
    ELSE LET r == make_entry(min_ids, table_name, Head(entries))
         IN  IF r.err # "none"
             THEN [min_ids |-> r.min_ids, rows |-> <<>>, err |-> r.err]
             ELSE LET rest == make_entries(r.min_ids, table_name, Tail(entries))
                  IN  [min_ids |-> rest.min_ids, rows |-> r.row \o rest.rows,
                       err |-> rest.err]

\* sqlutils.bulk_insert: one transaction appending the rows, ids assigned by
\* AUTOINCREMENT; nothing is written when the row generator raises
bulk_insert(tbls, table_name, made) ==
    IF made.err # "none"
    THEN tbls
    ELSE LET old == tbls[table_name].rows
             new == [i \in 1..Len(made.rows) |->
                        [id |-> Len(old) + i,
                         client_id |-> made.rows[i].client_id,
                         operation |-> made.rows[i].operation]]
         IN  [tbls EXCEPT ![table_name].rows = old \o new]

\* an insert that creates the table anew on every call
insert_effect_recreates(tbls, models, min_ids, table_name, entries, if_exists) ==
    LET t1 == create_operations_table(tbls, table_name, "replace")
        made == make_entries(min_ids, table_name, entries)
    IN  [tables |-> bulk_insert(t1, table_name, made),
         models |-> models \cup {table_name},
         min_ids |-> made.min_ids,
         err |-> made.err]

\* the effect of self.insert(table_name, data, if_exists) on the store and caches
insert_effect(tbls, models, min_ids, table_name, entries, if_exists) ==
    LET create == table_name \notin models \/ if_exists = "replace"
        t1 == IF create THEN create_operations_table(tbls, table_name, if_exists)
              ELSE tbls
        made == make_entries(min_ids, table_name, entries)
    IN  [tables |-> bulk_insert(t1, table_name, made),
         models |-> IF create THEN models \cup {table_name} ELSE models,
         min_ids |-> made.min_ids,
         err |-> made.err]

\* count_table: select count(*), 0 when the table does not exist
count_table(table_name) ==
    IF tables[table_name].exists THEN Len(tables[table_name].rows) ELSE 0

\* iter_operations_table: (client_id, json.loads(operation)) in id order
iter_operations_table(table_name) ==
    [i \in 1..Len(tables[table_name].rows) |->
        <<tables[table_name].rows[i].client_id,
          json_loads(tables[table_name].rows[i].operation)>>]

\* ---------------------------------------------------------- get_min_value
\* what `select min(column) from table` gives for one column: an
\* OperationalError (no such column or table), NULL, a number or a text
Unreadable == [kind |-> "OperationalError"]
ColumnResults == {Unreadable, None, Num(-4), Num(-3), Num(0), Num(3), Str("text")}

\* no call of get_min_value made yet
NoCall == [pc |-> "idle", columns |-> <<>>, pos |-> 1, min_value |-> Num(0)]

\* a loop body that takes every non-null minimum as the new min_value
min_value_step_takes_last(min_value, row0) ==
    IF row0 = Unreadable
    THEN [min_value |-> min_value, err |-> "none"]
    ELSE IF row0 = None
    THEN [min_value |-> min_value, err |-> "none"]
    ELSE IF row0.kind # "num"
    THEN [min_value |-> min_value, err |-> "TypeError"]
    ELSE [min_value |-> row0, err |-> "none"]

\* the body of the for-loop of get_min_value for one column; row0 is the
\* outcome of its query.  An OperationalError is passed over; the comparison
\* of a number with a text raises TypeError
min_value_step(min_value, row0) ==
    IF row0 = Unreadable
    THEN [min_value |-> min_value, err |-> "none"]
    ELSE IF row0 = None
    THEN [min_value |-> min_value, err |-> "none"]
    ELSE IF row0.kind # "num"
    THEN [min_value |-> min_value, err |-> "TypeError"]
    ELSE [min_value |-> IF min_value.halves > row0.halves THEN row0 ELSE min_value,
          err |-> "none"]

\* get_min_value(table_name, *args) up to its loop: min_value = 0
get_min_value(columns) ==
    /\ pc = "idle"
    /\ min_call.pc \in {"idle", "returned", "raised"}
    /\ min_call' = [pc |-> "loop", columns |-> columns, pos |-> 1,
                    min_value |-> Num(0)]
    /\ UNCHANGED <<error, pc, remote_jobs, interrupted>>
    /\ UNCHANGED logvars
    /\ UNCHANGED execvars
    /\ UNCHANGED waitvars

\* one pass of the for-loop over the columns
get_min_value_column ==
    /\ min_call.pc = "loop"
    /\ min_call.pos <= Len(min_call.columns)
    /\ LET r == min_value_step(min_call.min_value, min_call.columns[min_call.pos])
       IN  min_call' = IF r.err = "none"
                       THEN [min_call EXCEPT !.min_value = r.min_value,
                                             !.pos = @ + 1]
                       ELSE [min_call EXCEPT !.pc = "raised"]
    /\ UNCHANGED <<error, pc, remote_jobs, interrupted>>
    /\ UNCHANGED logvars
    /\ UNCHANGED execvars
    /\ UNCHANGED waitvars

\* return min_value
get_min_value_return ==
    /\ min_call.pc = "loop"
    /\ min_call.pos > Len(min_call.columns)
    /\ min_call' = [min_call EXCEPT !.pc = "returned"]
    /\ UNCHANGED <<error, pc, remote_jobs, interrupted>>
    /\ UNCHANGED logvars
    /\ UNCHANGED execvars
    /\ UNCHANGED waitvars

\* ------------------------------------------------------------- operations
Init ==
    /\ tables = [t \in TableNames |-> NoTable]
    /\ table_models = {}
    /\ table_min_id = <<>>
    /\ inserted = [t \in TableNames |-> <<>>]
    /\ dropped = {}
    /\ attempts = {}
    /\ passed_min = [t \in TableNames |-> 0]
    /\ error = "none"
    /\ pc = "idle"
    /\ log_table = "None"
    /\ bjs = "None"
    /\ operations = <<>>
    /\ pos = 1
    /\ previous_client_id = None
    /\ in_batch = 0
    /\ remote_jobs = <<>>
    /\ interrupted = 0
    /\ min_call = NoCall
    /\ buffer = 0
    /\ calls = <<>>
    /\ run_base = 0
    /\ jobs = [pending |-> <<>>, dirty |-> <<>>, done |-> <<>>]
    /\ sleep_time = 15
    /\ wait_bjs = "None"
    /\ slept = <<>>
    /\ n_queries = 0
    /\ cur_dirty = {}
    /\ same_again = {}
    /\ last_updates = {}
    /\ term_updates = <<>>
    /\ collected = {}
    /\ ledger0 = <<>>

\* The locals and the return value of a finished call are gone when the caller
\* makes the next call: every call starts from these values.
forget_exec ==
    /\ log_table' = "None"
    /\ bjs' = "None"
    /\ operations' = <<>>
    /\ pos' = 1
    /\ previous_client_id' = None
    /\ in_batch' = 0
    /\ buffer' = 0
    /\ calls' = <<>>
    /\ run_base' = Len(remote_jobs)

forget_wait ==
    /\ jobs' = [pending |-> <<>>, dirty |-> <<>>, done |-> <<>>]
    /\ sleep_time' = 15
    /\ wait_bjs' = "None"
    /\ slept' = <<>>
    /\ n_queries' = 0
    /\ cur_dirty' = {}
    /\ same_again' = {}
    /\ last_updates' = {}
    /\ term_updates' = <<>>
    /\ collected' = {}
    /\ ledger0' = <<>>

\* AdWords.insert(table_name, data, if_exists); data is one mapping or a list
insert(table_name, entries, if_exists) ==
    /\ pc = "idle"
    /\ Len(tables[table_name].rows) + Len(entries) <= MaxRecords
    /\ LET r == insert_effect(tables, table_models, table_min_id,
                              table_name, entries, if_exists)
       IN  /\ tables' = r.tables
           /\ table_models' = r.models
           /\ table_min_id' = r.min_ids
           /\ error' = r.err
           /\ inserted' = [inserted EXCEPT ![table_name] =
                 (IF if_exists = "replace" THEN <<>> ELSE @)
                 \o (IF r.err = "none" THEN entries ELSE <<>>)]
    /\ UNCHANGED <<dropped, pc, remote_jobs, interrupted>>
    /\ attempts' = attempts \cup {table_name}
    /\ passed_min' = note_passed(passed_min, table_name, entries)
    /\ forget_exec
    /\ forget_wait
    /\ UNCHANGED min_call

\* AdWords.dump_table(df, table_name, if_exists=...); entries are the records
\* of the dataframe
dump_table(table_name, entries, if_exists) ==
    /\ pc = "idle"
    /\ Len(tables[table_name].rows) + Len(entries) <= MaxRecords
    /\ LET t1 == create_operations_table(tables, table_name, if_exists)
           made == make_entries(table_min_id, table_name, entries)
       IN  /\ tables' = bulk_insert(t1, table_name, made)
           /\ table_models' = table_models \cup {table_name}
           /\ table_min_id' = made.min_ids
           /\ error' = made.err
           /\ inserted' = [inserted EXCEPT ![table_name] =
                 (IF if_exists = "replace" THEN <<>> ELSE @)
                 \o (IF made.err = "none" THEN entries ELSE <<>>)]
    /\ UNCHANGED <<dropped, pc, remote_jobs, interrupted>>
    /\ attempts' = attempts \cup {table_name}
    /\ passed_min' = note_passed(passed_min, table_name, entries)
    /\ forget_exec
    /\ forget_wait
    /\ UNCHANGED min_call

\* a clear that keeps the cached minimum id of the table
clear_keeps_min_id(table_name) ==
    /\ pc = "idle"
    /\ tables' = [tables EXCEPT ![table_name] = NoTable]
    /\ table_models' = table_models \ {table_name}
    /\ table_min_id' = table_min_id
    /\ inserted' = [inserted EXCEPT ![table_name] = <<>>]
    /\ dropped' = dropped \cup {table_name}
    /\ attempts' = attempts \ {table_name}
    /\ passed_min' = [passed_min EXCEPT ![table_name] = 0]
    /\ error' = "none"
    /\ UNCHANGED <<pc, remote_jobs, interrupted>>
    /\ forget_exec
    /\ forget_wait
    /\ UNCHANGED min_call

\* AdWords.clear(table_name)
clear(table_name) ==
    /\ pc = "idle"
    /\ tables' = [tables EXCEPT ![table_name] = NoTable]
    /\ table_models' = table_models \ {table_name}
    /\ table_min_id' = [t \in DOMAIN table_min_id \ {table_name} |-> table_min_id[t]]
    /\ inserted' = [inserted EXCEPT ![table_name] = <<>>]
    /\ dropped' = dropped \cup {table_name}
    /\ attempts' = attempts \ {table_name}
    /\ passed_min' = [passed_min EXCEPT ![table_name] = 0]
    /\ error' = "none"
    /\ UNCHANGED <<pc, remote_jobs, interrupted>>
    /\ forget_exec
    /\ forget_wait
    /\ UNCHANGED min_call

\* ---------------------------------------------------------------- dispatch
\* one entry of the history of calls made by a dispatch run
Call(op, job, n, is_last) == [op |-> op, job |-> job, n |-> n, is_last |-> is_last]

\* bjs.helper.add_operation(operation): the operation is the k-th result the
\* builder yielded for the record at position rec of the stream
AddCall(job, rec, k) ==
    [op |-> "add_operation", job |-> job, n |-> 1, is_last |-> FALSE,
     operation |-> <<rec, k>>]

\* an upload that never marks the request as the last one
upload_call_never_last(created, buf, is_last) ==
    Call("upload_operations", Len(created), buf, FALSE)

\* bjs.helper.upload_operations(is_last): sends the buffered operations of the
\* current job (the last one prepared) in one request
upload_call(created, buf, is_last) ==
    Call("upload_operations", Len(created), buf, is_last)

\* status the remote reports for a job it has just created
CreatedStatus == "ACTIVE"

\* the dict log_batchjob builds for the job just prepared
batchjob_data(job_id, client_id) ==
    [k \in {"creation_time", "client_id", "batchjob_id", "upload_url",
            "result_url", "metadata", "status"} |->
        CASE k = "creation_time" -> Str("now")
          [] k = "client_id" -> IntVal(client_id)
          [] k = "batchjob_id" -> IntVal(job_id)
          [] k = "upload_url" -> Str("upload")
          [] k = "result_url" -> Str("")
          [] k = "metadata" -> Str("")
          [] k = "status" -> Str(CreatedStatus)]

\* what one call of the operation builder yields: truthy (TRUE) or empty
\* (FALSE) results, after which the generator returns or raises
SeqsUpTo(S, n) == UNION {[1..k -> S] : k \in 0..n}
BuilderResults == [yields : SeqsUpTo(BOOLEAN, MaxYield), raises : BOOLEAN]

\* the inner loop flushing on every multiple of the chunk size, zero included
RECURSIVE add_operations_flush_at_zero(_, _, _, _, _, _)
add_operations_flush_at_zero(yields, n_in_batch, buf, job, rec, k) ==
    IF yields = <<>>
    THEN [in_batch |-> n_in_batch, buffer |-> buf, calls |-> <<>>]
    ELSE IF ~Head(yields)
    THEN add_operations_flush_at_zero(Tail(yields), n_in_batch, buf, job, rec, k + 1)
    ELSE LET flush == n_in_batch % batch_size = 0
             buf1 == IF flush THEN 0 ELSE buf
             rest == add_operations_flush_at_zero(Tail(yields), n_in_batch + 1,
                                                 buf1 + 1, job, rec, k + 1)
         IN  [in_batch |-> rest.in_batch, buffer |-> rest.buffer,
              calls |-> (IF flush
                         THEN <<Call("upload_operations", job, buf, FALSE)>>
                         ELSE <<>>)
                        \o <<AddCall(job, rec, k)>> \o rest.calls]

\* the inner loop adding the results of the builder last first
RECURSIVE add_operations_last_first(_, _, _, _, _, _)
add_operations_last_first(yields, n_in_batch, buf, job, rec, k) ==
    IF yields = <<>>
    THEN [in_batch |-> n_in_batch, buffer |-> buf, calls |-> <<>>]
    ELSE LET rest == add_operations_last_first(Tail(yields), n_in_batch, buf,
                                              job, rec, k + 1)
             flush == rest.in_batch > 0 /\ rest.in_batch % batch_size = 0
         IN  IF ~Head(yields)
             THEN rest
             ELSE [in_batch |-> rest.in_batch + 1,
                   buffer |-> (IF flush THEN 0 ELSE rest.buffer) + 1,
                   calls |-> rest.calls
                             \o (IF flush
                                 THEN <<Call("upload_operations", job, rest.buffer, FALSE)>>
                                 ELSE <<>>)
                             \o <<AddCall(job, rec, k)>>]

\* the inner loop counting the empty results of the builder as well
RECURSIVE add_operations_counts_empty(_, _, _, _, _, _)
add_operations_counts_empty(yields, n_in_batch, buf, job, rec, k) ==
    IF yields = <<>>
    THEN [in_batch |-> n_in_batch, buffer |-> buf, calls |-> <<>>]
    ELSE IF ~Head(yields)
    THEN add_operations_counts_empty(Tail(yields), n_in_batch + 1, buf, job, rec, k + 1)
    ELSE LET flush == n_in_batch > 0 /\ n_in_batch % batch_size = 0
             buf1 == IF flush THEN 0 ELSE buf
             rest == add_operations_counts_empty(Tail(yields), n_in_batch + 1,
                                                buf1 + 1, job, rec, k + 1)
         IN  [in_batch |-> rest.in_batch, buffer |-> rest.buffer,
              calls |-> (IF flush
                         THEN <<Call("upload_operations", job, buf, FALSE)>>
                         ELSE <<>>)
                        \o <<AddCall(job, rec, k)>> \o rest.calls]

\* the inner loop of _execute_operations over the results of one builder call:
\* yields holds the results from the k-th on of the record at position rec
RECURSIVE add_operations(_, _, _, _, _, _)
add_operations(yields, n_in_batch, buf, job, rec, k) ==
    IF yields = <<>>
    THEN [in_batch |-> n_in_batch, buffer |-> buf, calls |-> <<>>]
    ELSE IF ~Head(yields)
    THEN add_operations(Tail(yields), n_in_batch, buf, job, rec, k + 1)
    ELSE LET flush == n_in_batch > 0 /\ n_in_batch % batch_size = 0
             buf1 == IF flush THEN 0 ELSE buf
             rest == add_operations(Tail(yields), n_in_batch + 1, buf1 + 1, job,
                                    rec, k + 1)
         IN  [in_batch |-> rest.in_batch, buffer |-> rest.buffer,
              calls |-> (IF flush
                         THEN <<Call("upload_operations", job, buf, FALSE)>>
                         ELSE <<>>)
                        \o <<AddCall(job, rec, k)>> \o rest.calls]

\* _setup_operations(table_name, batchlog_table), the first half of every
\* dispatching method (modify_bids, modify_budgets, ...)
setup_operations(table_name) ==
    /\ pc = "idle"
    /\ LET n_entries == count_table(table_name)
           t1 == create_operations_table(tables, BatchlogTable, "append")
       IN  /\ tables' = t1
           /\ table_models' = table_models \cup {BatchlogTable}
           /\ bjs' = IF n_entries = 0 THEN "None" ELSE "BatchJobService"
           /\ operations' = IF n_entries = 0 THEN <<>>
                            ELSE iter_operations_table(table_name)
    /\ log_table' = table_name
    /\ pos' = 1
    /\ previous_client_id' = None
    /\ buffer' = 0
    /\ calls' = <<>>
    /\ run_base' = Len(remote_jobs)
    /\ error' = "none"
    /\ pc' = "exec_for"
    /\ in_batch' = 0
    /\ UNCHANGED <<table_min_id, inserted, dropped, attempts, passed_min, remote_jobs>>
    /\ interrupted' = 0
    /\ forget_wait
    /\ UNCHANGED min_call

\* AdWords.__init__ in a later process: a client with empty caches over the
\* table store the earlier one left behind
construct ==
    /\ pc = "idle"
    /\ table_models' = {}
    /\ table_min_id' = <<>>
    /\ inserted' = [t \in TableNames |-> <<>>]
    /\ attempts' = {}
    /\ passed_min' = [t \in TableNames |-> 0]
    /\ error' = "none"
    /\ UNCHANGED <<tables, dropped, pc, remote_jobs, interrupted>>
    /\ forget_exec
    /\ forget_wait
    /\ UNCHANGED min_call

\* a sync_objects that takes 0 for a minimum id that is not cached
sync_objects_default_min_id(table_name) ==
    /\ pc = "idle"
    /\ LET n_entries == count_table(table_name)
           t1 == create_operations_table(tables, BatchlogTable, "append")
       IN  /\ tables' = t1
           /\ table_models' = table_models \cup {BatchlogTable}
           /\ bjs' = IF n_entries = 0 THEN "None" ELSE "BatchJobService"
           /\ operations' = IF n_entries = 0 THEN <<>>
                            ELSE iter_operations_table(table_name)
    /\ error' = "none"
    /\ pc' = "exec_for"
    /\ log_table' = table_name
    /\ pos' = 1
    /\ previous_client_id' = None
    /\ buffer' = 0
    /\ calls' = <<>>
    /\ run_base' = Len(remote_jobs)
    /\ in_batch' = 0
    /\ interrupted' = 0
    /\ UNCHANGED <<table_min_id, inserted, dropped, attempts, passed_min, remote_jobs>>
    /\ forget_wait
    /\ UNCHANGED min_call

\* sync_objects(table_name) up to its call of _execute_operations:
\* _setup_operations, then self.table_min_id[table_name] for the builder
sync_objects(table_name) ==
    /\ pc = "idle"
    /\ LET n_entries == count_table(table_name)
           t1 == create_operations_table(tables, BatchlogTable, "append")
           cached == table_name \in DOMAIN table_min_id
       IN  /\ tables' = t1
           /\ table_models' = table_models \cup {BatchlogTable}
           /\ bjs' = IF n_entries = 0 \/ ~cached THEN "None" ELSE "BatchJobService"
           /\ operations' = IF n_entries = 0 \/ ~cached THEN <<>>
                            ELSE iter_operations_table(table_name)
           /\ error' = IF cached THEN "none" ELSE "KeyError"
           /\ pc' = IF cached THEN "exec_for" ELSE "idle"
    /\ log_table' = table_name
    /\ pos' = 1
    /\ previous_client_id' = None
    /\ buffer' = 0
    /\ calls' = <<>>
    /\ run_base' = Len(remote_jobs)
    /\ in_batch' = 0
    /\ interrupted' = 0
    /\ UNCHANGED <<table_min_id, inserted, dropped, attempts, passed_min, remote_jobs>>
    /\ forget_wait
    /\ UNCHANGED min_call

\* for-loop head, record of another account: final upload of the previous job,
\* then bjs.prepare_job
exec_new_account ==
    /\ pc = "exec_for"
    /\ pos <= Len(operations)
    /\ operations[pos][1] # previous_client_id
    /\ Len(remote_jobs) < MaxJobs
    /\ LET client_id == operations[pos][1]
           job == Len(remote_jobs) + 1
       IN  /\ calls' = calls
                \o (IF previous_client_id # None
                    THEN <<upload_call(remote_jobs, buffer, TRUE)>> ELSE <<>>)
                \o <<Call("prepare_job", job, Floor(client_id), FALSE)>>
           /\ previous_client_id' = client_id
           /\ remote_jobs' = Append(remote_jobs, Floor(client_id))
           /\ interrupted' = interrupted
    /\ buffer' = 0
    /\ pc' = "exec_log"
    /\ UNCHANGED <<log_table, bjs, operations, pos, in_batch, run_base, error>>
    /\ UNCHANGED logvars
    /\ UNCHANGED waitvars
    /\ UNCHANGED min_call

\* a dispatcher that goes on without writing the ledger row
exec_log_batchjob_skipped ==
    /\ pc = "exec_log"
    /\ calls' = Append(calls, Call("log_batchjob", Len(remote_jobs), 0, FALSE))
    /\ in_batch' = 0
    /\ pc' = "exec_build"
    /\ UNCHANGED <<error, log_table, bjs, operations, pos, previous_client_id,
                   remote_jobs, interrupted, buffer, run_base>>
    /\ UNCHANGED logvars
    /\ UNCHANGED waitvars
    /\ UNCHANGED min_call

\* a dispatcher that goes on counting where the previous job stopped
exec_log_batchjob_keeps_count ==
    /\ pc = "exec_log"
    /\ LET job == Len(remote_jobs)
           r == insert_effect(tables, table_models, table_min_id, BatchlogTable,
                              <<batchjob_data(job, remote_jobs[job])>>, "append")
       IN  /\ tables' = r.tables
           /\ table_models' = r.models
           /\ table_min_id' = r.min_ids
           /\ calls' = Append(calls, Call("log_batchjob", job, 0, FALSE))
    /\ pc' = "exec_build"
    /\ UNCHANGED <<inserted, dropped, attempts, error, log_table, bjs, operations, pos,
                   previous_client_id, in_batch,
                   remote_jobs, interrupted, buffer, run_base>>
    /\ passed_min' = note_passed(passed_min, BatchlogTable,
                               <<batchjob_data(Len(remote_jobs),
                                               remote_jobs[Len(remote_jobs)])>>)
    /\ UNCHANGED waitvars
    /\ UNCHANGED min_call

\* a dispatcher whose ledger insert replaces the table
exec_log_batchjob_replaces ==
    /\ pc = "exec_log"
    /\ LET job == Len(remote_jobs)
           r == insert_effect(tables, table_models, table_min_id, BatchlogTable,
                              <<batchjob_data(job, remote_jobs[job])>>, "replace")
       IN  /\ tables' = r.tables
           /\ table_models' = r.models
           /\ table_min_id' = r.min_ids
           /\ calls' = Append(calls, Call("log_batchjob", job, 0, FALSE))
    /\ in_batch' = 0
    /\ pc' = "exec_build"
    /\ UNCHANGED <<inserted, dropped, attempts, error, log_table, bjs, operations, pos,
                   previous_client_id,
                   remote_jobs, interrupted, buffer, run_base>>
    /\ passed_min' = note_passed(passed_min, BatchlogTable,
                               <<batchjob_data(Len(remote_jobs),
                                               remote_jobs[Len(remote_jobs)])>>)
    /\ UNCHANGED waitvars
    /\ UNCHANGED min_call

\* self.log_batchjob(batchlog_table, bjs), then in_batch = 0
exec_log_batchjob ==
    /\ pc = "exec_log"
    /\ LET job == Len(remote_jobs)
           r == insert_effect(tables, table_models, table_min_id, BatchlogTable,
                              <<batchjob_data(job, remote_jobs[job])>>, "append")
       IN  /\ tables' = r.tables
           /\ table_models' = r.models
           /\ table_min_id' = r.min_ids
           /\ calls' = Append(calls, Call("log_batchjob", job, 0, FALSE))
    /\ in_batch' = 0
    /\ pc' = "exec_build"
    /\ UNCHANGED <<inserted, dropped, attempts, error, log_table, bjs, operations, pos,
                   previous_client_id,
                   remote_jobs, interrupted, buffer, run_base>>
    /\ passed_min' = note_passed(passed_min, BatchlogTable,
                               <<batchjob_data(Len(remote_jobs),
                                               remote_jobs[Len(remote_jobs)])>>)
    /\ UNCHANGED waitvars
    /\ UNCHANGED min_call

\* for-loop head, record of the account of the previous record
exec_same_account ==
    /\ pc = "exec_for"
    /\ pos <= Len(operations)
    /\ operations[pos][1] = previous_client_id
    /\ pc' = "exec_build"
    /\ UNCHANGED <<error, remote_jobs, interrupted>>
    /\ UNCHANGED logvars
    /\ UNCHANGED execvars
    /\ UNCHANGED waitvars
    /\ UNCHANGED min_call

\* a dispatcher that drops the error of the builder and takes the next record
exec_build_swallows(out) ==
    /\ pc = "exec_build"
    /\ LET r == add_operations(out.yields, in_batch, buffer, Len(remote_jobs), pos, 1)
       IN  /\ in_batch' = r.in_batch
           /\ buffer' = r.buffer
           /\ calls' = calls \o r.calls
    /\ error' = IF out.raises THEN "BuilderError" ELSE error
    /\ pc' = "exec_for"
    /\ pos' = pos + 1
    /\ UNCHANGED <<log_table, bjs, operations, previous_client_id, remote_jobs, run_base>>
    /\ interrupted' = IF out.raises THEN Len(remote_jobs) ELSE interrupted
    /\ UNCHANGED logvars
    /\ UNCHANGED waitvars
    /\ UNCHANGED min_call

\* a dispatcher that sends the buffered operations in a final upload when the
\* builder raises
exec_build_uploads_on_error(out) ==
    /\ pc = "exec_build"
    /\ LET r == add_operations(out.yields, in_batch, buffer, Len(remote_jobs), pos, 1)
       IN  /\ in_batch' = r.in_batch
           /\ buffer' = IF out.raises THEN 0 ELSE r.buffer
           /\ calls' = calls \o r.calls
                \o (IF out.raises
                    THEN <<upload_call(remote_jobs, r.buffer, TRUE)>> ELSE <<>>)
    /\ IF out.raises
       THEN /\ error' = "BuilderError"
            /\ pc' = "idle"
            /\ pos' = pos
       ELSE /\ error' = error
            /\ pc' = "exec_for"
            /\ pos' = pos + 1
    /\ UNCHANGED <<log_table, bjs, operations, previous_client_id, remote_jobs, run_base>>
    /\ interrupted' = IF out.raises THEN Len(remote_jobs) ELSE interrupted
    /\ UNCHANGED logvars
    /\ UNCHANGED waitvars
    /\ UNCHANGED min_call

\* the inner loop over operation_builder(internal_operation)
exec_build(out) ==
    /\ pc = "exec_build"
    /\ LET r == add_operations(out.yields, in_batch, buffer, Len(remote_jobs), pos, 1)
       IN  /\ in_batch' = r.in_batch
           /\ buffer' = r.buffer
           /\ calls' = calls \o r.calls
    /\ IF out.raises
       THEN /\ error' = "BuilderError"
            /\ pc' = "idle"
            /\ pos' = pos
       ELSE /\ error' = error
            /\ pc' = "exec_for"
            /\ pos' = pos + 1
    /\ UNCHANGED <<log_table, bjs, operations, previous_client_id, remote_jobs, run_base>>
    /\ interrupted' = IF out.raises THEN Len(remote_jobs) ELSE interrupted
    /\ UNCHANGED logvars
    /\ UNCHANGED waitvars
    /\ UNCHANGED min_call

\* a final upload made whether or not a batch service was instantiated
exec_finish_always_uploads ==
    /\ pc = "exec_for"
    /\ pos > Len(operations)
    /\ calls' = Append(calls, upload_call(remote_jobs, buffer, TRUE))
    /\ buffer' = 0
    /\ error' = "none"
    /\ pc' = "idle"
    /\ UNCHANGED <<log_table, bjs, operations, pos, previous_client_id, in_batch,
                   remote_jobs, interrupted, run_base>>
    /\ UNCHANGED logvars
    /\ UNCHANGED waitvars
    /\ UNCHANGED min_call

\* the stream is exhausted: final upload when a batch service exists
exec_finish ==
    /\ pc = "exec_for"
    /\ pos > Len(operations)
    /\ IF bjs # "None"
       THEN /\ calls' = Append(calls, upload_call(remote_jobs, buffer, TRUE))
            /\ buffer' = 0
       ELSE UNCHANGED <<calls, buffer>>
    /\ error' = "none"
    /\ pc' = "idle"
    /\ UNCHANGED <<log_table, bjs, operations, pos, previous_client_id, in_batch,
                   remote_jobs, interrupted, run_base>>
    /\ UNCHANGED logvars
    /\ UNCHANGED waitvars
    /\ UNCHANGED min_call

\* ------------------------------------------------------------ job tracker
\* The statuses the remote answers with.  The code names only DONE and
\* CANCELED; AWAITING_FILE_UPLOAD is to it what ACTIVE is and is left out.
StatusValues == {"ACTIVE", "PROCESSING", "DONE", "CANCELED"}
\* CANCELED taken for a status that is still pending
Terminal_done_only(status) == status = Str("DONE")

Terminal(status) == status = Str("DONE") \/ status = Str("CANCELED")

\* a del that removes nothing
Without_nothing(d, k) == d

\* a dict without one key (del d[k])
Without(d, k) == [j \in DOMAIN d \ {k} |-> d[j]]
\* a dict with one key set (d[k] = v)
With(d, k, v) == [j \in DOMAIN d \cup {k} |-> IF j = k THEN v ELSE d[j]]

\* the status stored in a row or carried by an update
RowStatus(row) == json_loads(row.operation)["status"]

\* get_batchjobs that loads the rows of every status
RECURSIVE get_batchjobs_rows_unfiltered(_, _)
get_batchjobs_rows_unfiltered(rows, batchjobs) ==
    IF rows = <<>>
    THEN batchjobs
    ELSE LET operation == Head(rows)
             data == json_loads(operation.operation)
             client_id == operation.client_id
             of_client == IF client_id \in DOMAIN batchjobs
                          THEN batchjobs[client_id] ELSE <<>>
         IN  get_batchjobs_rows_unfiltered(Tail(rows),
                 With(batchjobs, client_id,
                      With(of_client, data["batchjob_id"],
                           [id |-> operation.id, data |-> data])))

\* get_batchjobs that starts the job map of the account anew with every row
RECURSIVE get_batchjobs_rows_last_job(_, _)
get_batchjobs_rows_last_job(rows, batchjobs) ==
    IF rows = <<>>
    THEN batchjobs
    ELSE LET operation == Head(rows)
             data == json_loads(operation.operation)
         IN  IF ~Terminal(data["status"])
             THEN get_batchjobs_rows_last_job(Tail(rows),
                      With(batchjobs, operation.client_id,
                           With(<<>>, data["batchjob_id"],
                                [id |-> operation.id, data |-> data])))
             ELSE get_batchjobs_rows_last_job(Tail(rows), batchjobs)

\* get_batchjobs: the rows whose stored status is not terminal, by client id
\* and job id
RECURSIVE get_batchjobs_rows(_, _)
get_batchjobs_rows(rows, batchjobs) ==
    IF rows = <<>>
    THEN batchjobs
    ELSE LET operation == Head(rows)
             data == json_loads(operation.operation)
             client_id == operation.client_id
             of_client == IF client_id \in DOMAIN batchjobs
                          THEN batchjobs[client_id] ELSE <<>>
         IN  IF ~Terminal(data["status"])
             THEN get_batchjobs_rows(Tail(rows),
                      With(batchjobs, client_id,
                           With(of_client, data["batchjob_id"],
                                [id |-> operation.id, data |-> data])))
             ELSE get_batchjobs_rows(Tail(rows), batchjobs)

get_batchjobs(tbls, batch_table) == get_batchjobs_rows(tbls[batch_table].rows, <<>>)

\* a collect that loads the jobs of every stored status
collect_jobs_all(tbls, jobs_table) ==
    [pending |-> get_batchjobs_rows_unfiltered(tbls[jobs_table].rows, <<>>),
     dirty |-> <<>>, done |-> <<>>]

\* _collect_jobs
collect_jobs(tbls, jobs_table) ==
    [pending |-> get_batchjobs(tbls, jobs_table), dirty |-> <<>>, done |-> <<>>]

\* k.lower() of a progressStats key
ProgressKeys == {"numOperationsExecuted"}
Lower(k) == CASE k = "numOperationsExecuted" -> "numoperationsexecuted"

\* the update record built for a dirty job whose status changed
formatted_dirty_job(client_id, dirty_job) ==
    LET progress == IF "progressStats" \in DOMAIN dirty_job
                    THEN dirty_job["progressStats"] ELSE {}
        keys == {"status", "result_url", "client_id", "batchjob_id"}
                \cup {Lower(p[1]) : p \in progress}
    IN  [k \in keys |->
            IF \E p \in progress : Lower(p[1]) = k
            THEN (CHOOSE p \in progress : Lower(p[1]) = k)[2]
            ELSE CASE k = "status" -> dirty_job["status"]
                   [] k = "result_url" ->
                        IF "downloadUrl" \in DOMAIN dirty_job
                        THEN dirty_job["downloadUrl"] ELSE Str("")
                   [] k = "client_id" -> client_id
                   [] k = "batchjob_id" -> dirty_job["id"]]

\* a loop body that leaves the account in pending when its last job is done
update_one_job_keeps_account(client_id, dirty_job, st) ==
    IF client_id \notin DOMAIN st.pending
       \/ dirty_job["id"] \notin DOMAIN st.pending[client_id]
    THEN [st EXCEPT !.err = "KeyError"]
    ELSE LET table_entry == st.pending[client_id][dirty_job["id"]]
             formatted == formatted_dirty_job(client_id, dirty_job)
             updates == Append(st.updates,
                               [id |-> table_entry.id,
                                operation |-> json_dumps(formatted)])
             of_client == IF client_id \in DOMAIN st.done
                          THEN st.done[client_id] ELSE <<>>
         IN  IF dirty_job["status"] = table_entry.data["status"]
             THEN st
             ELSE IF Terminal(dirty_job["status"])
             THEN [pending |-> With(st.pending, client_id,
                                    Without(st.pending[client_id], dirty_job["id"])),
                   done |-> With(st.done, client_id,
                                 With(of_client, dirty_job["id"], formatted)),
                   updates |-> updates,
                   err |-> st.err]
             ELSE [st EXCEPT !.updates = updates]

\* a loop body that writes an update whether the status changed or not
update_one_job_writes_unchanged(client_id, dirty_job, st) ==
    IF client_id \notin DOMAIN st.pending
       \/ dirty_job["id"] \notin DOMAIN st.pending[client_id]
    THEN [st EXCEPT !.err = "KeyError"]
    ELSE LET table_entry == st.pending[client_id][dirty_job["id"]]
             formatted == formatted_dirty_job(client_id, dirty_job)
             updates == Append(st.updates,
                               [id |-> table_entry.id,
                                operation |-> json_dumps(formatted)])
         IN  IF Terminal(dirty_job["status"])
             THEN LET left == Without(st.pending[client_id], dirty_job["id"])
                      of_client == IF client_id \in DOMAIN st.done
                                   THEN st.done[client_id] ELSE <<>>
                  IN  [pending |-> IF DOMAIN left = {}
                                   THEN Without(st.pending, client_id)
                                   ELSE With(st.pending, client_id, left),
                       done |-> With(st.done, client_id,
                                     With(of_client, dirty_job["id"], formatted)),
                       updates |-> updates,
                       err |-> st.err]
             ELSE [st EXCEPT !.updates = updates]

\* a loop body that passes over a dirty job it does not find in pending
update_one_job_skips_unknown(client_id, dirty_job, st) ==
    IF client_id \notin DOMAIN st.pending
       \/ dirty_job["id"] \notin DOMAIN st.pending[client_id]
    THEN st
    ELSE LET table_entry == st.pending[client_id][dirty_job["id"]]
             formatted == formatted_dirty_job(client_id, dirty_job)
         IN  IF dirty_job["status"] # table_entry.data["status"]
             THEN LET updates == Append(st.updates,
                                   [id |-> table_entry.id,
                                    operation |-> json_dumps(formatted)])
                  IN  IF Terminal(dirty_job["status"])
                      THEN LET left == Without(st.pending[client_id], dirty_job["id"])
                               of_client == IF client_id \in DOMAIN st.done
                                            THEN st.done[client_id] ELSE <<>>
                           IN  [pending |-> IF DOMAIN left = {}
                                            THEN Without(st.pending, client_id)
                                            ELSE With(st.pending, client_id, left),
                                done |-> With(st.done, client_id,
                                              With(of_client, dirty_job["id"], formatted)),
                                updates |-> updates,
                                err |-> st.err]
                      ELSE [st EXCEPT !.updates = updates]
             ELSE st

\* the body of the for-loop of _update_jobs_status for one dirty job;
\* st = [pending, done, updates, err]
update_one_job(client_id, dirty_job, st) ==
    IF client_id \notin DOMAIN st.pending
       \/ dirty_job["id"] \notin DOMAIN st.pending[client_id]
    THEN [st EXCEPT !.err = "KeyError"]
    ELSE LET table_entry == st.pending[client_id][dirty_job["id"]]
             row_id == table_entry.id
             pending_job == table_entry.data
             formatted == formatted_dirty_job(client_id, dirty_job)
         IN  IF dirty_job["status"] # pending_job["status"]
             THEN LET updates == Append(st.updates,
                                   [id |-> row_id, operation |-> json_dumps(formatted)])
                  IN  IF Terminal(dirty_job["status"])
                      THEN LET left == Without(st.pending[client_id], dirty_job["id"])
                               of_client == IF client_id \in DOMAIN st.done
                                            THEN st.done[client_id] ELSE <<>>
                           IN  [pending |-> IF DOMAIN left = {}
                                            THEN Without(st.pending, client_id)
                                            ELSE With(st.pending, client_id, left),
                                done |-> With(st.done, client_id,
                                              With(of_client, dirty_job["id"], formatted)),
                                updates |-> updates,
                                err |-> st.err]
                      ELSE [st EXCEPT !.updates = updates]
             ELSE st

RECURSIVE update_job_list(_, _, _)
update_job_list(client_id, job_list, st) ==
    IF job_list = <<>> \/ st.err # "none"
    THEN st
    ELSE update_job_list(client_id, Tail(job_list),
                         update_one_job(client_id, Head(job_list), st))

\* a loop that reads the items of dirty, last first, and leaves them in it
RECURSIVE drain_dirty_kept(_, _)
drain_dirty_kept(dirty, st) ==
    IF dirty = <<>> \/ st.err # "none"
    THEN [dirty |-> dirty, pending |-> st.pending, done |-> st.done,
          updates |-> st.updates, err |-> st.err]
    ELSE LET item == dirty[Len(dirty)]
             r == drain_dirty_kept(SubSeq(dirty, 1, Len(dirty) - 1),
                                   update_job_list(item[1], item[2], st))
         IN  [r EXCEPT !.dirty = dirty]

\* the while-loop of _update_jobs_status: dirty is drained by popitem (its
\* last item first) until it is empty or a lookup raises
RECURSIVE drain_dirty(_, _)
drain_dirty(dirty, st) ==
    IF dirty = <<>> \/ st.err # "none"
    THEN [dirty |-> dirty, pending |-> st.pending, done |-> st.done,
          updates |-> st.updates, err |-> st.err]
    ELSE LET item == dirty[Len(dirty)]
         IN  drain_dirty(SubSeq(dirty, 1, Len(dirty) - 1),
                         update_job_list(item[1], item[2], st))

\* an UPDATE that applies the first of the updates only
execute_updates_first_only(rows, updates) ==
    IF updates = <<>>
    THEN rows
    ELSE [i \in 1..Len(rows) |->
             IF rows[i].id = Head(updates).id
             THEN [rows[i] EXCEPT !.operation = Head(updates).operation]
             ELSE rows[i]]

\* an UPDATE that keeps the stored fields the update record does not name
RECURSIVE execute_updates_merges(_, _)
execute_updates_merges(rows, updates) ==
    IF updates = <<>>
    THEN rows
    ELSE execute_updates_merges(
             [i \in 1..Len(rows) |->
                 IF rows[i].id = Head(updates).id
                 THEN LET old == json_loads(rows[i].operation)
                          new == json_loads(Head(updates).operation)
                      IN  [rows[i] EXCEPT !.operation =
                              json_dumps([k \in DOMAIN old \cup DOMAIN new |->
                                             IF k \in DOMAIN new THEN new[k]
                                             ELSE old[k]])]
                 ELSE rows[i]],
             Tail(updates))

\* the UPDATE ... SET operation = :operation WHERE id = :id of one transaction
RECURSIVE execute_updates(_, _)
execute_updates(rows, updates) ==
    IF updates = <<>>
    THEN rows
    ELSE execute_updates(
             [i \in 1..Len(rows) |->
                 IF rows[i].id = Head(updates).id
                 THEN [rows[i] EXCEPT !.operation = Head(updates).operation]
                 ELSE rows[i]],
             Tail(updates))

PendingPairs(pending) ==
    UNION {{<<c, j>> : j \in DOMAIN pending[c]} : c \in DOMAIN pending}

\* wait_jobs up to the loop: create_batch_operation_log, _collect_jobs
wait_jobs ==
    /\ pc = "idle"
    /\ LET t1 == create_operations_table(tables, BatchlogTable, "append")
       IN  /\ tables' = t1
           /\ jobs' = collect_jobs(t1, BatchlogTable)
    /\ table_models' = table_models \cup {BatchlogTable}
    /\ sleep_time' = 15
    /\ wait_bjs' = "None"
    /\ slept' = <<>>
    /\ n_queries' = 0
    /\ cur_dirty' = {}
    /\ same_again' = {}
    /\ last_updates' = {}
    /\ term_updates' = <<>>
    /\ collected' = PendingPairs(jobs'.pending)
    /\ ledger0' = tables'[BatchlogTable].rows
    /\ error' = "none"
    /\ pc' = "wait_loop"
    /\ UNCHANGED <<table_min_id, inserted, dropped, attempts, passed_min, remote_jobs, interrupted>>
    /\ forget_exec
    /\ UNCHANGED min_call

\* one status item of a response: downloadUrl comes with DONE, progressStats
\* with PROCESSING and DONE
status_item(job_id, status) ==
    [k \in {"id", "status"}
           \cup (IF status = "DONE" THEN {"downloadUrl"} ELSE {})
           \cup (IF status \in {"PROCESSING", "DONE"} THEN {"progressStats"} ELSE {}) |->
        CASE k = "id" -> job_id
          [] k = "status" -> Str(status)
          [] k = "downloadUrl" -> Str("download")
          [] k = "progressStats" -> {<<"numOperationsExecuted", IntVal(1)>>}]

\* the clients of a dict, in the one order the model keeps them
RECURSIVE KeySeq(_)
KeySeq(S) == IF S = {} THEN <<>>
             ELSE LET k == CHOOSE x \in S : TRUE IN <<k>> \o KeySeq(S \ {k})

\* bjs.get_multiple_status(pending): one batched query answering, for every
\* client, one item per pending job; statuses maps (client, job) to a status
get_multiple_status(pending, statuses) ==
    LET clients == KeySeq(DOMAIN pending)
    IN  [i \in 1..Len(clients) |->
            <<clients[i],
              LET ids == KeySeq(DOMAIN pending[clients[i]])
              IN  [j \in 1..Len(ids) |->
                      status_item(ids[j], statuses[<<clients[i], ids[j]>>])]>>]

\* the (client, job, status) items of a response
DirtyItems(dirty) ==
    UNION {{<<dirty[i][1], dirty[i][2][j]["id"], dirty[i][2][j]["status"]>> :
               j \in 1..Len(dirty[i][2])} : i \in 1..Len(dirty)}

\* a sleep time growing by the base every cycle
next_sleep_time_linear(t) == t + 15

\* sleep_time *= 2
next_sleep_time(t) == t * 2

\* a query made for the jobs of one account only
queried_jobs_one_account(pending) ==
    LET c == CHOOSE a \in DOMAIN pending : TRUE
    IN  [a \in {c} |-> pending[a]]

\* the argument of bjs.get_multiple_status in _update_jobs: jobs['pending']
queried_jobs(pending) == pending

\* loop body of wait_jobs up to the status query of _update_jobs, which
\* stores the response in jobs['dirty']
wait_poll_response(response) ==
    /\ pc = "wait_loop"
    /\ DOMAIN jobs.pending # {}
    /\ wait_bjs' = "BatchJobService"
    /\ slept' = Append(slept, sleep_time)
    /\ sleep_time' = next_sleep_time(sleep_time)
    /\ jobs' = [jobs EXCEPT !.dirty = response]
    /\ n_queries' = n_queries + 1
    /\ cur_dirty' = DirtyItems(jobs'.dirty)
    /\ same_again' = cur_dirty' \cap cur_dirty
    /\ pc' = "wait_reconcile"
    /\ UNCHANGED <<error, remote_jobs, interrupted, last_updates, term_updates, collected, ledger0>>
    /\ UNCHANGED logvars
    /\ UNCHANGED execvars
    /\ UNCHANGED min_call

\* a poll cycle answered by a remote that covers the queried jobs
wait_poll(statuses) ==
    wait_poll_response(get_multiple_status(queried_jobs(jobs.pending), statuses))

\* the terminal updates among the written ones, counted per row id
count_terminal(counts, written) ==
    LET term == {i \in 1..Len(written) :
                    RowStatus(written[i]) \in {Str("DONE"), Str("CANCELED")}}
    IN  [id \in DOMAIN counts \cup {written[i].id : i \in term} |->
            (IF id \in DOMAIN counts THEN counts[id] ELSE 0)
            + Cardinality({i \in term : written[i].id = id})]

\* what the transaction of _update_jobs_status ends with: a commit, or an error
\* of the table store that rolls it back
StorageOutcomes == {"none", "OperationalError"}

\* _update_jobs_status(batch_table, jobs); storage is the outcome of its
\* transaction, which is entered after the loop over dirty
update_jobs_status(storage) ==
    /\ pc = "wait_reconcile"
    /\ \E r \in {drain_dirty(jobs.dirty,
                              [pending |-> jobs.pending, done |-> jobs.done,
                               updates |-> <<>>, err |-> "none"])} :
         \E written \in {IF r.err = "none" /\ storage = "none"
                          THEN r.updates ELSE <<>>} :
           /\ jobs' = [pending |-> r.pending, dirty |-> r.dirty, done |-> r.done]
           /\ tables' = [tables EXCEPT ![BatchlogTable].rows =
                            execute_updates(@, written)]
           /\ last_updates' = {written[i].id : i \in 1..Len(written)}
           /\ term_updates' = count_terminal(term_updates, written)
           /\ error' = IF r.err # "none" THEN r.err ELSE storage
           /\ pc' = IF error' = "none" THEN "wait_loop" ELSE "idle"
    /\ UNCHANGED <<table_models, table_min_id, inserted, dropped, attempts,
                   passed_min, remote_jobs, interrupted>>
    /\ UNCHANGED <<sleep_time, wait_bjs, slept, n_queries, cur_dirty, same_again,
                   collected, ledger0>>
    /\ UNCHANGED execvars
    /\ UNCHANGED min_call

\* the loop condition of wait_jobs fails: return jobs
wait_return ==
    /\ pc = "wait_loop"
    /\ DOMAIN jobs.pending = {}
    /\ pc' = "idle"
    /\ UNCHANGED <<error, remote_jobs, interrupted>>
    /\ UNCHANGED logvars
    /\ UNCHANGED execvars
    /\ UNCHANGED waitvars
    /\ UNCHANGED min_call

\* entries a caller queues for dispatch: one account id each
DispatchEntries == {[k \in {"client_id"} |-> IntVal(a)] : a \in Accounts}

Next ==
    \/ \E es \in SeqsUpTo(DispatchEntries, MaxList) \ {<<>>} :
          insert("ops", es, "append")
    \/ setup_operations("ops")
    \/ exec_new_account
    \/ exec_log_batchjob
    \/ exec_same_account
    \/ \E out \in BuilderResults : exec_build(out)
    \/ exec_finish

Spec == Init /\ [][Next]_vars

\* the builder result of a record that becomes one wire operation
OneOperation == [yields |-> <<TRUE>>, raises |-> FALSE]

\* a well-behaved remote: any status for every pending job; it answers
\* MaxCycles queries of one wait_jobs call
StatusAnswers ==
    IF Len(slept) < MaxCycles THEN [PendingPairs(jobs.pending) -> StatusValues] ELSE {}

WaitNext ==
    \/ \E es \in SeqsUpTo(DispatchEntries, MaxList) \ {<<>>} :
          insert("ops", es, "append")
    \/ setup_operations("ops")
    \/ exec_new_account
    \/ exec_log_batchjob
    \/ exec_same_account
    \/ exec_build(OneOperation)
    \/ exec_finish
    \/ wait_jobs
    \/ \E statuses \in StatusAnswers : wait_poll(statuses)
    \/ update_jobs_status("none")
    \/ wait_return

WaitSpec == Init /\ [][WaitNext]_vars

\* a remote that answers for every pending job and reports every job DONE or
\* CANCELED by its MaxCycles-th answer at the latest
DeadlineAnswers ==
    {st \in StatusAnswers :
        Len(slept) + 1 >= MaxCycles => \A p \in DOMAIN st : st[p] \in {"DONE", "CANCELED"}}

LiveNext ==
    \/ \E es \in SeqsUpTo(DispatchEntries, MaxList) \ {<<>>} :
          insert("ops", es, "append")
    \/ setup_operations("ops")
    \/ exec_new_account
    \/ exec_log_batchjob
    \/ exec_same_account
    \/ exec_build(OneOperation)
    \/ exec_finish
    \/ wait_jobs
    \/ \E statuses \in DeadlineAnswers : wait_poll(statuses)
    \/ update_jobs_status("none")
    \/ wait_return

\* wait_jobs is one synchronous call: once entered, its loop keeps running
LiveSpec ==
    /\ Init
    /\ [][LiveNext]_vars
    /\ WF_vars(\E statuses \in DeadlineAnswers : wait_poll(statuses))
    /\ WF_vars(update_jobs_status("none"))
    /\ WF_vars(wait_return)

\* an entry _make_entry rejects: no finite number among its values
InvalidEntry == [k \in {"client_id"} |-> None]

\* two logs, filled by inserts that succeed or fail, and dispatched
LogDispatchNext ==
    \/ \E es \in SeqsUpTo(DispatchEntries \cup {InvalidEntry}, MaxList) \ {<<>>} :
          insert("ops", es, "append")
    \/ \E e \in DispatchEntries : insert("ops2", <<e>>, "append")
    \/ \E t \in OpsTables : setup_operations(t)
    \/ exec_new_account
    \/ exec_log_batchjob
    \/ exec_same_account
    \/ \E out \in BuilderResults : exec_build(out)
    \/ exec_finish

LogDispatchSpec == Init /\ [][LogDispatchNext]_vars

\* a remote that answers MaxCycles queries of one wait_jobs call, each job
\* still PROCESSING or DONE
ProgressAnswers ==
    IF Len(slept) < MaxCycles
    THEN [PendingPairs(jobs.pending) -> {"PROCESSING", "DONE"}] ELSE {}

\* dispatch and wait_jobs over a table store whose transactions may fail
StorageNext ==
    \/ \E es \in SeqsUpTo(DispatchEntries, MaxList) \ {<<>>} :
          insert("ops", es, "append")
    \/ setup_operations("ops")
    \/ exec_new_account
    \/ exec_log_batchjob
    \/ exec_same_account
    \/ exec_build(OneOperation)
    \/ exec_finish
    \/ wait_jobs
    \/ \E statuses \in ProgressAnswers : wait_poll(statuses)
    \/ \E storage \in StorageOutcomes : update_jobs_status(storage)
    \/ wait_return

StorageSpec == Init /\ [][StorageNext]_vars

\* a remote that answers MaxSleeps queries of one wait_jobs call, with any
\* status for every pending job
BackoffAnswers ==
    IF Len(slept) < MaxSleeps THEN [PendingPairs(jobs.pending) -> StatusValues] ELSE {}

\* records queued one at a time, dispatched and waited for
BackoffNext ==
    \/ \E e \in DispatchEntries : insert("ops", <<e>>, "append")
    \/ setup_operations("ops")
    \/ exec_new_account
    \/ exec_log_batchjob
    \/ exec_same_account
    \/ exec_build(OneOperation)
    \/ exec_finish
    \/ wait_jobs
    \/ \E statuses \in BackoffAnswers : wait_poll(statuses)
    \/ update_jobs_status("none")
    \/ wait_return

BackoffSpec == Init /\ [][BackoffNext]_vars

\* entries a caller inserts: an account id or None, and a field that is None,
\* NaN or the number -1.5
LogEntries ==
    {[k \in {"client_id", "x"} |-> IF k = "client_id" THEN c ELSE x] :
        c \in {IntVal(a) : a \in Accounts} \cup {None}, x \in {None, NaN, Num(-3)}}

LogNext ==
    \/ \E es \in SeqsUpTo(LogEntries, MaxList) \ {<<>>} :
          \E if_exists \in {"append", "replace"} : insert("ops", es, if_exists)
    \/ \E e \in DispatchEntries : insert("ops2", <<e>>, "append")
    \/ \E t \in OpsTables : clear(t)

LogSpec == Init /\ [][LogNext]_vars

\* what the builder does with a record: it yields one operation, or it
\* raises, after one operation or before any
RaisingResults ==
    {OneOperation, [yields |-> <<TRUE>>, raises |-> TRUE],
     [yields |-> <<>>, raises |-> TRUE]}

\* dispatch with a builder that may raise, and wait_jobs
RaiseNext ==
    \/ \E e \in DispatchEntries : insert("ops", <<e>>, "append")
    \/ setup_operations("ops")
    \/ exec_new_account
    \/ exec_log_batchjob
    \/ exec_same_account
    \/ \E out \in RaisingResults : exec_build(out)
    \/ exec_finish
    \/ wait_jobs
    \/ \E statuses \in StatusAnswers : wait_poll(statuses)
    \/ update_jobs_status("none")
    \/ wait_return

RaiseSpec == Init /\ [][RaiseNext]_vars

\* the pending jobs of the account of the i-th entry of a response
pending_of(response, i) == jobs.pending[response[i][1]]

\* a job id the client never got from the remote
UnknownJob == IntVal(MaxJobs + 1)

\* a response that covers the queried jobs and names one job more in the list
\* of one account, behind or in front of the others: a job of that account a
\* second time, or a job unknown to the client
StrayItems(response, i) ==
    {status_item(j, s) : j \in DOMAIN pending_of(response, i) \cup {UnknownJob},
                         s \in {"PROCESSING", "DONE"}}
StrayResponses ==
    UNION {LET base == get_multiple_status(jobs.pending, st)
           IN  UNION {{[n \in DOMAIN base |->
                          IF n # i THEN base[n]
                          ELSE <<base[n][1],
                                 IF front THEN <<item>> \o base[n][2]
                                 ELSE Append(base[n][2], item)>>] :
                         front \in BOOLEAN, item \in StrayItems(base, i)} :
                      i \in DOMAIN base} :
           st \in ProgressAnswers}

\* dispatch and wait_jobs with a remote whose responses may name a job that
\* is not pending
StrayNext ==
    \/ \E e \in DispatchEntries : insert("ops", <<e>>, "append")
    \/ setup_operations("ops")
    \/ exec_new_account
    \/ exec_log_batchjob
    \/ exec_same_account
    \/ exec_build(OneOperation)
    \/ exec_finish
    \/ wait_jobs
    \/ \E statuses \in ProgressAnswers : wait_poll(statuses)
    \/ \E response \in StrayResponses : wait_poll_response(response)
    \/ update_jobs_status("none")
    \/ wait_return

StraySpec == Init /\ [][StrayNext]_vars

\* an entry _make_entry rejects after it has cached a minimum id: a number
\* and no account id
HalfEntry == [k \in {"client_id", "x"} |-> IF k = "client_id" THEN None ELSE Num(-3)]

\* entries a caller inserts before a sync_objects call
SyncEntries == DispatchEntries \cup {InvalidEntry, HalfEntry}

\* inserts that succeed or fail, clear, a restart of the client, and
\* sync_objects
SyncNext ==
    \/ \E es \in SeqsUpTo(SyncEntries, MaxList) \ {<<>>} :
          insert("ops", es, "append")
    \/ clear("ops")
    \/ construct
    \/ sync_objects("ops")
    \/ exec_new_account
    \/ exec_log_batchjob
    \/ exec_same_account
    \/ exec_build(OneOperation)
    \/ exec_finish

SyncSpec == Init /\ [][SyncNext]_vars

\* entries with or without an account id and with a field that is None, zero,
\* -1.5, -2.5 or 1.5
MinIdEntries ==
    {[k \in {"client_id", "x"} |-> IF k = "client_id" THEN c ELSE x] :
        c \in {IntVal(1), None}, x \in {None, Num(0), Num(-3), Num(-5), Num(3)}}

\* one log filled through insert and dump_table, by calls that succeed or
\* fail, and cleared
MinIdNext ==
    \/ \E es \in SeqsUpTo(MinIdEntries, MaxList) \ {<<>>} :
          \E if_exists \in {"append", "replace"} : insert("ops", es, if_exists)
    \/ \E es \in SeqsUpTo(MinIdEntries, MaxList) \ {<<>>} :
          \E if_exists \in {"append", "replace"} : dump_table("ops", es, if_exists)
    \/ clear("ops")

MinIdSpec == Init /\ [][MinIdNext]_vars

\* calls of get_min_value with up to MaxColumns columns
MinValueNext ==
    \/ \E columns \in SeqsUpTo(ColumnResults, MaxColumns) : get_min_value(columns)
    \/ get_min_value_column
    \/ get_min_value_return

MinValueSpec == Init /\ [][MinValueNext]_vars

\* ------------------------------------------------------------------ claims
Ledger == tables[BatchlogTable].rows
RowData(row) == json_loads(row.operation)
\* the ledger rows of one (client, job) pair
RowsOf(rows, client_id, job_id) ==
    {i \in 1..Len(rows) : /\ rows[i].client_id = client_id
                          /\ RowData(rows[i])["batchjob_id"] = job_id}
\* a reconcile has completed and no status query is outstanding
Reconciled == pc \in {"wait_loop", "idle"} /\ error = "none"
DonePairs == PendingPairs(jobs.done)

\* C1: after a reconcile, every job the last response reported DONE or
\* CANCELED is out of pending, is in done under its account with that status,
\* and its ledger row holds that status, written exactly once in this
\* wait_jobs call; no row is ever written a terminal status twice.
C1_TerminalReconciled ==
    /\ \A id \in DOMAIN term_updates : term_updates[id] = 1
    /\ Reconciled =>
         \A it \in cur_dirty : it[3] \in {Str("DONE"), Str("CANCELED")} =>
            /\ <<it[1], it[2]>> \notin PendingPairs(jobs.pending)
            /\ <<it[1], it[2]>> \in DonePairs
            /\ jobs.done[it[1]][it[2]]["status"] = it[3]
            /\ RowsOf(Ledger, it[1], it[2]) # {}
            /\ \A i \in RowsOf(Ledger, it[1], it[2]) :
                  /\ RowData(Ledger[i])["status"] = it[3]
                  /\ Ledger[i].id \in DOMAIN term_updates
                  /\ term_updates[Ledger[i].id] = 1

\* a job reported PROCESSING in the first cycle and CANCELED in the second,
\* with a second job done before it
C1_Witness ==
    /\ pc = "wait_loop"
    /\ Len(slept) = 2
    /\ \E it \in cur_dirty : it[3] = Str("CANCELED") /\ <<it[1], it[2]>> \in DonePairs
    /\ \E c \in DOMAIN jobs.done : \E j \in DOMAIN jobs.done[c] :
          jobs.done[c][j]["status"] = Str("DONE")

\* C2: a job reported with the same status in two consecutive poll cycles gets
\* no ledger update in the second of them.
C2_NoUpdateWhenUnchanged ==
    Reconciled =>
       \A it \in same_again :
          \A i \in RowsOf(Ledger, it[1], it[2]) : Ledger[i].id \notin last_updates

AllDone(rows) ==
    /\ rows # <<>>
    /\ \A i \in 1..Len(rows) : RowData(rows[i])["status"] = Str("DONE")

\* C3 as stated: wait_jobs on a ledger whose jobs are all DONE returns with
\* every one of those jobs in done.
C3_DoneHoldsEveryJob ==
    (AllDone(ledger0) /\ pc = "idle") =>
       \A i \in 1..Len(ledger0) :
          <<ledger0[i].client_id, RowData(ledger0[i])["batchjob_id"]>> \in DonePairs

\* C3 amended: wait_jobs on a ledger whose jobs are all DONE never sleeps,
\* never instantiates the batch service or queries the remote, writes nothing,
\* and returns a collection whose pending, dirty and done are all empty.
C3_AllDoneReturnsAtOnce ==
    AllDone(ledger0) =>
       /\ pc \in {"wait_loop", "idle"}
       /\ slept = <<>>
       /\ n_queries = 0
       /\ wait_bjs = "None"
       /\ jobs = [pending |-> <<>>, dirty |-> <<>>, done |-> <<>>]
       /\ Ledger = ledger0

C3_Witness == AllDone(ledger0) /\ Len(ledger0) >= 2 /\ pc = "idle"


\* C4: with a remote that answers for every pending job and eventually reports
\* each of them DONE or CANCELED, wait_jobs returns, and it returns with pending
\* and dirty empty and done holding exactly the pairs pending at collect, each
\* with a terminal status.
C4_WaitJobsReturns ==
    [](pc = "wait_loop" =>
         <>(/\ pc = "idle"
            /\ error = "none"
            /\ jobs.pending = <<>>
            /\ jobs.dirty = <<>>
            /\ DonePairs = collected
            /\ \A p \in DonePairs :
                  jobs.done[p[1]][p[2]]["status"] \in {Str("DONE"), Str("CANCELED")}))

\* a returned wait_jobs call that polled twice for three jobs of two accounts
C4_Witness ==
    /\ pc = "idle"
    /\ Len(slept) = 2
    /\ Cardinality(collected) = 3
    /\ Cardinality(DOMAIN jobs.done) = 2
    /\ DonePairs = collected


\* the dispatch run in progress or just finished
RunJobs == Len(remote_jobs) - run_base
RunCompleted ==
    pc = "idle" /\ error = "none" /\ operations # <<>> /\ pos > Len(operations)
StreamAccounts == {operations[i][1] : i \in 1..Len(operations)}
CallsOf(op) == {i \in 1..Len(calls) : calls[i].op = op}
CeilDiv(n, c) == (n + c - 1) \div c

\* C5: a dispatch run over a non-empty log creates exactly one remote job per
\* distinct account id of the log, whatever the order of its records.
C5_OneJobPerAccount ==
    RunCompleted => RunJobs = Cardinality(StreamAccounts)

\* C6: the calls of a run are grouped by job in creation order; a job is
\* prepared only right after the final upload of the job before it; nothing is
\* added or uploaded for a job after its final upload; a run that returns ends
\* with the final upload of its last job.
C6_UploadsDoNotInterleave ==
    /\ \A i, k \in 1..Len(calls) : i < k => calls[i].job <= calls[k].job
    /\ \A i \in CallsOf("prepare_job") :
          calls[i].job > run_base + 1 =>
             /\ i > 1
             /\ calls[i - 1] = Call("upload_operations", calls[i].job - 1,
                                    calls[i - 1].n, TRUE)
    /\ \A i \in CallsOf("upload_operations") :
          calls[i].is_last =>
             \A k \in 1..Len(calls) : k > i => calls[k].job # calls[i].job
    /\ RunCompleted =>
          /\ calls # <<>>
          /\ calls[Len(calls)] = Call("upload_operations", Len(remote_jobs),
                                      calls[Len(calls)].n, TRUE)
          /\ \A j \in (run_base + 1)..Len(remote_jobs) :
                Cardinality({i \in CallsOf("upload_operations") :
                                calls[i].job = j /\ calls[i].is_last}) = 1

\* a returned run of two jobs, the first with a chunk upload before its final one
C6_Witness ==
    /\ RunCompleted
    /\ RunJobs = 2
    /\ \E i \in CallsOf("upload_operations") :
          calls[i].job = run_base + 1 /\ ~calls[i].is_last /\ calls[i].n = batch_size

\* C7 as stated: a returned run for one account that added N wire operations
\* made ceil(N / batch_size) uploads.
C7_CeilUploads ==
    (RunCompleted /\ RunJobs = 1) =>
       Cardinality(CallsOf("upload_operations"))
          = CeilDiv(Cardinality(CallsOf("add_operation")), batch_size)

\* C7 amended: a returned run for one account that added N wire operations
\* made ceil(N / batch_size) uploads, and one upload when N = 0; the last call
\* of the run is an upload and it is the only one marked final.
C7_UploadCount ==
    (RunCompleted /\ RunJobs = 1) =>
       LET n == Cardinality(CallsOf("add_operation"))
           expected == IF n = 0 THEN 1 ELSE CeilDiv(n, batch_size)
       IN  /\ Cardinality(CallsOf("upload_operations")) = expected
           /\ Len(calls) \in CallsOf("upload_operations")
           /\ \A i \in CallsOf("upload_operations") :
                 calls[i].is_last <=> i = Len(calls)

\* a returned run for one account with N twice the chunk size
C7_Witness ==
    /\ RunCompleted
    /\ RunJobs = 1
    /\ Cardinality(CallsOf("add_operation")) = 2 * batch_size
    /\ Cardinality(CallsOf("upload_operations")) = 2

\* C8: a run creates a job only for an account for which the ledger holds no
\* job of an earlier run.
C8_NoJobForKnownAccount ==
    \A j \in (run_base + 1)..Len(remote_jobs) :
       \A i \in 1..Len(Ledger) :
          Floor(RowData(Ledger[i])["batchjob_id"]) <= run_base =>
             Floor(Ledger[i].client_id) # remote_jobs[j]

\* C9: but for the job just prepared, whose row is written next, every remote
\* job has a ledger row with its job id and account, for a job of the running
\* dispatch with its upload url; in the calls of a run log_batchjob directly
\* follows prepare_job.
C9_LedgerRowFollowsCreation ==
    /\ \A j \in 1..Len(remote_jobs) :
          (pc = "exec_log" /\ j = Len(remote_jobs))
          \/ \E i \in 1..Len(Ledger) :
                /\ RowData(Ledger[i])["batchjob_id"] = IntVal(j)
                /\ Ledger[i].client_id = IntVal(remote_jobs[j])
                /\ j > run_base => "upload_url" \in DOMAIN RowData(Ledger[i])
    /\ \A i \in CallsOf("prepare_job") :
          IF i = Len(calls)
          THEN pc = "exec_log"
          ELSE calls[i + 1] = Call("log_batchjob", calls[i].job, 0, FALSE)

\* a run that failed in the builder after adding operations to its second job
C9_Witness ==
    /\ pc = "idle"
    /\ error = "BuilderError"
    /\ RunJobs = 2
    /\ \E i \in CallsOf("add_operation") : calls[i].job = Len(remote_jobs)
    /\ Len(Ledger) = Len(remote_jobs)


\* a record as it is read back: without its None and NaN valued fields
Cleaned(e) == [k \in {j \in DOMAIN e : e[j].kind \notin {"None", "nan"}} |-> e[k]]

\* C10 as stated: count_table is the number of records inserted since the log
\* was empty or absent, and iter_operations_table yields those records, each
\* with its account id, in insertion order.
C10_StreamYieldsRecords ==
    \A t \in OpsTables :
       /\ count_table(t) = Len(inserted[t])
       /\ iter_operations_table(t) =
             [i \in 1..Len(inserted[t]) |->
                 <<inserted[t][i]["client_id"], inserted[t][i]>>]

\* C10 amended: count_table is the number of records passed to the insert
\* calls that returned without error since the log was empty or absent (0 for
\* a log that does not exist), and iter_operations_table yields, in insertion
\* order, each record's account id with the record less its None and NaN
\* valued fields.
C10_CountAndStream ==
    \A t \in OpsTables :
       /\ count_table(t) = Len(inserted[t])
       /\ ~tables[t].exists => count_table(t) = 0
       /\ iter_operations_table(t) =
             [i \in 1..Len(inserted[t]) |->
                 <<inserted[t][i]["client_id"], Cleaned(inserted[t][i])>>]

\* three records of two accounts, inserted by a list call and a single call,
\* one of them with a None valued field
C10_Witness ==
    /\ count_table("ops") = 3
    /\ inserted["ops"][1]["x"] = None
    /\ inserted["ops"][2]["x"] = Num(-3)
    /\ inserted["ops"][1]["client_id"] # inserted["ops"][3]["client_id"]
    /\ "x" \notin DOMAIN iter_operations_table("ops")[1][2]

\* C11: in a wait_jobs call every status query comes with exactly one sleep
\* before it, the k-th sleep lasts 15 * 2^(k-1) seconds whatever the queries
\* answered, and the next sleep is prepared as twice the last one, never
\* capped and never reset.
C11_BackoffDoubles ==
    /\ n_queries = Len(slept)
    /\ \A k \in 1..Len(slept) : slept[k] = 15 * 2^(k - 1)
    /\ pc \in {"wait_loop", "wait_reconcile"} => sleep_time = 15 * 2^Len(slept)

\* the fourth sleep of a call, 120 seconds, with one job done in an earlier
\* cycle and another still pending
C11_Witness ==
    /\ pc = "wait_loop"
    /\ Len(slept) = 4
    /\ slept[4] = 120
    /\ jobs.done # <<>>
    /\ jobs.pending # <<>>

\* C12: dirty is empty when the collection is created, whenever the loop of
\* wait_jobs is at its head and when wait_jobs has returned without error; it
\* holds items only between the status query and the end of the reconcile of
\* the same cycle.
C12_DirtyIsScratch ==
    (pc # "wait_reconcile" /\ error = "none") => jobs.dirty = <<>>

\* the loop head after a first cycle that answered for three jobs of two
\* accounts and moved one of them to done
C12_Witness ==
    /\ pc = "wait_loop"
    /\ Len(slept) = 1
    /\ Cardinality(cur_dirty) = 3
    /\ Cardinality({it[1] : it \in cur_dirty}) = 2
    /\ Cardinality(DonePairs) = 1
    /\ jobs.dirty = <<>>

\* a ledger row holding DONE or CANCELED, and the (client, job) pair of a row
TerminalRow(row) == RowData(row)["status"] \in {Str("DONE"), Str("CANCELED")}
RowPair(row) == <<row.client_id, RowData(row)["batchjob_id"]>>
DirtyPairs(dirty) == {<<it[1], it[2]>> : it \in DirtyItems(dirty)}

\* C13: once the ledger row of a job holds DONE or CANCELED, no step of this
\* or of a later wait_jobs call changes the row, has the job in pending or in
\* a status response, or moves it to done again.
C13_NoTransitionOutOfTerminal ==
    [][\A i \in 1..Len(Ledger) :
          TerminalRow(Ledger[i]) =>
             /\ Len(Ledger') >= i
             /\ Ledger'[i] = Ledger[i]
             /\ RowPair(Ledger[i]) \notin PendingPairs(jobs'.pending)
             /\ RowPair(Ledger[i]) \notin DirtyPairs(jobs'.dirty)
             /\ RowPair(Ledger[i]) \in PendingPairs(jobs'.done)
                   => RowPair(Ledger[i]) \in DonePairs]_vars

\* a second wait_jobs call, past its first cycle: one job was persisted
\* terminal by an earlier call, another was moved to done by this one
C13_Witness ==
    /\ pc = "wait_loop"
    /\ Len(slept) = 1
    /\ DonePairs # {}
    /\ \E i \in 1..Len(Ledger) :
          TerminalRow(Ledger[i]) /\ Ledger[i].id \notin DOMAIN term_updates

\* the account changes among the first k records of the stream
AccountChanges(k) ==
    Cardinality({i \in 1..k : i = 1 \/ operations[i][1] # operations[i - 1][1]})

\* C14: the step in which the builder raises ends the dispatch run at the
\* record being built: it creates no job, leaves the ledger as it is, keeps
\* every call made so far and adds at most the operations (and chunk uploads)
\* the builder yielded before raising.  After the failure the run has created
\* the jobs of the records up to the failing one and no other, each with its
\* ledger row, and has made no final upload for the job being filled.
C14_BuilderErrorPropagates ==
    /\ []((pc = "idle" /\ error = "BuilderError") =>
            /\ pos <= Len(operations)
            /\ RunJobs = AccountChanges(pos)
            /\ \A j \in (run_base + 1)..Len(remote_jobs) :
                  \E i \in 1..Len(Ledger) :
                     RowPair(Ledger[i]) = <<IntVal(remote_jobs[j]), IntVal(j)>>
            /\ \A i \in 1..Len(calls) :
                  /\ calls[i].job <= Len(remote_jobs)
                  /\ calls[i].is_last => calls[i].job < Len(remote_jobs))
    /\ [][(pc = "exec_build" /\ error' = "BuilderError") =>
            /\ pc' = "idle"
            /\ pos' = pos
            /\ remote_jobs' = remote_jobs
            /\ tables' = tables
            /\ Len(calls') >= Len(calls)
            /\ SubSeq(calls', 1, Len(calls)) = calls
            /\ \A i \in (Len(calls) + 1)..Len(calls') :
                  /\ calls'[i].op \in {"add_operation", "upload_operations"}
                  /\ ~calls'[i].is_last]_vars

\* the builder raised on the second of three records, after a chunk of the
\* job had been uploaded
C14_Witness ==
    /\ pc = "idle"
    /\ error = "BuilderError"
    /\ pos = 2
    /\ Len(operations) = 3
    /\ \E i \in CallsOf("upload_operations") : ~calls[i].is_last

\* C15: a dispatch run over a log that is empty or does not exist gets no
\* batch service and no stream from its setup, which only creates the ledger
\* table when it is missing; the run then returns at once, having created no
\* remote job, made no call and written no table.
C15_EmptyLogDispatch ==
    [][/\ (pc = "idle" /\ pc' = "exec_for" /\ count_table(log_table') = 0) =>
            /\ bjs' = "None"
            /\ operations' = <<>>
            /\ calls' = <<>>
            /\ remote_jobs' = remote_jobs
            /\ tables'[BatchlogTable].exists
            /\ tables'[BatchlogTable].rows = tables[BatchlogTable].rows
            /\ \A t \in OpsTables : tables'[t] = tables[t]
       /\ (pc = "exec_for" /\ count_table(log_table) = 0) =>
            /\ pc' = "idle"
            /\ error' = "none"
            /\ bjs' = "None"
            /\ calls' = <<>>
            /\ remote_jobs' = remote_jobs
            /\ tables' = tables]_vars

\* a returned run over a log that exists and is empty, after an earlier run
\* over the other log had written the ledger
C15_Witness ==
    /\ pc = "idle"
    /\ log_table = "ops"
    /\ tables["ops"].exists
    /\ count_table("ops") = 0
    /\ Ledger # <<>>
    /\ calls = <<>>

\* the jobs of the run in progress, and per account its first record of the
\* stream and its first job of the run
JobsOfRun == (run_base + 1)..Len(remote_jobs)
FirstRecord(a) == Min({r \in 1..Len(operations) : Floor(operations[r][1]) = a})
FirstJob(a) == Min({j \in JobsOfRun : remote_jobs[j] = a})

\* C16: the stream of a run is the log in the order of its ids; the wire
\* operations are added in the order of their records in the stream and,
\* within a record, in the order the builder yielded them, each to the job
\* created for its record's account; and of two accounts the one whose first
\* record comes first in the stream gets its first job first.
C16_DispatchKeepsOrder ==
    (log_table \in OpsTables /\ operations # <<>>) =>
       LET rows == tables[log_table].rows
       IN  /\ Len(operations) = Len(rows)
           /\ \A i \in 1..Len(rows) :
                 /\ operations[i] = <<rows[i].client_id, json_loads(rows[i].operation)>>
                 /\ \A k \in 1..Len(rows) : i < k => rows[i].id < rows[k].id
           /\ \A i, k \in CallsOf("add_operation") :
                 i < k =>
                    \/ calls[i].operation[1] < calls[k].operation[1]
                    \/ /\ calls[i].operation[1] = calls[k].operation[1]
                       /\ calls[i].operation[2] < calls[k].operation[2]
           /\ \A i \in CallsOf("add_operation") :
                 /\ calls[i].operation[1] \in 1..Len(operations)
                 /\ calls[i].job = run_base + AccountChanges(calls[i].operation[1])
                 /\ remote_jobs[calls[i].job]
                       = Floor(operations[calls[i].operation[1]][1])
           /\ \A j \in JobsOfRun :
                 \E r \in 1..Len(operations) : Floor(operations[r][1]) = remote_jobs[j]
           /\ \A j1, j2 \in JobsOfRun :
                 FirstRecord(remote_jobs[j1]) < FirstRecord(remote_jobs[j2])
                    => FirstJob(remote_jobs[j1]) < FirstJob(remote_jobs[j2])

\* a returned run over three records of two accounts in which the first
\* record gave two wire operations
C16_Witness ==
    /\ RunCompleted
    /\ Len(operations) = 3
    /\ RunJobs = 2
    /\ \E i, k \in CallsOf("add_operation") :
          /\ calls[i].operation = <<1, 1>>
          /\ calls[k].operation = <<1, 2>>
    /\ \E i \in CallsOf("add_operation") : calls[i].operation[1] = 3

\* the cached handle and the cached minimum id of a table, "None" when not cached
CachedMinId(min_ids, t) == IF t \in DOMAIN min_ids THEN <<min_ids[t]>> ELSE <<>>

\* C17: a log that does not exist has no records, no cached handle and no
\* cached minimum id; the step that drops a log leaves every other table, its
\* cached handle and its cached minimum id as they were; and the step that
\* creates a log anew leaves it holding exactly the records that step
\* inserted, numbered from 1.
C17_ClearDropsOneLog ==
    /\ [](\A t \in OpsTables :
             ~tables[t].exists =>
                /\ count_table(t) = 0
                /\ tables[t].rows = <<>>
                /\ t \notin table_models
                /\ t \notin DOMAIN table_min_id)
    /\ [][\A t \in OpsTables :
             /\ (tables[t].exists /\ ~tables'[t].exists) =>
                   \A u \in TableNames \ {t} :
                      /\ tables'[u] = tables[u]
                      /\ (u \in table_models') = (u \in table_models)
                      /\ CachedMinId(table_min_id', u) = CachedMinId(table_min_id, u)
             /\ (~tables[t].exists /\ tables'[t].exists) =>
                   /\ t \in table_models'
                   /\ iter_operations_table(t)' =
                         [i \in 1..Len(inserted'[t]) |->
                             <<inserted'[t][i]["client_id"], Cleaned(inserted'[t][i])>>]
                   /\ \A i \in 1..Len(tables'[t].rows) : tables'[t].rows[i].id = i]_vars

\* a log cleared and filled again with one record, its cached minimum id
\* computed anew, while the other log keeps its record and its cached handle
C17_Witness ==
    /\ dropped = {"ops"}
    /\ count_table("ops") = 1
    /\ count_table("ops2") = 1
    /\ "ops" \in DOMAIN table_min_id
    /\ table_min_id["ops"] = 0
    /\ "ops2" \in table_models

\* the items of the last response whose status differs from the one stored
\* in pending, and the ledger row id of such an item
StatusChanged ==
    {it \in cur_dirty : jobs.pending[it[1]][it[2]].data["status"] # it[3]}
RowIdOf(it) == jobs.pending[it[1]][it[2]].id

\* C18: a reconcile either commits, and then every row whose job was reported
\* with a changed status holds the reported status and every other row is
\* as it was, or its transaction fails, and then no row of the ledger has
\* changed and wait_jobs ends with the error of the store.
C18_UpdatesAreTransactional ==
    [][pc = "wait_reconcile" =>
          \/ /\ error' = "none"
             /\ pc' = "wait_loop"
             /\ Len(Ledger') = Len(Ledger)
             /\ \A i \in 1..Len(Ledger) :
                   /\ Ledger'[i].id = Ledger[i].id
                   /\ IF \E it \in StatusChanged : RowIdOf(it) = Ledger[i].id
                      THEN \A it \in StatusChanged :
                              RowIdOf(it) = Ledger[i].id
                                 => RowData(Ledger'[i])["status"] = it[3]
                      ELSE Ledger'[i] = Ledger[i]
          \/ /\ error' = "OperationalError"
             /\ pc' = "idle"
             /\ Ledger' = Ledger]_vars

\* wait_jobs ended by a failed transaction in its first cycle, in which three
\* jobs had been reported with a changed status: no row holds a new status
C18_Witness ==
    /\ pc = "idle"
    /\ error = "OperationalError"
    /\ Len(slept) = 1
    /\ Cardinality(cur_dirty) = 3
    /\ \E it \in cur_dirty : it[3] = Str("DONE")
    /\ \E it \in cur_dirty : it[3] = Str("PROCESSING")
    /\ Ledger = ledger0
    /\ \A i \in 1..Len(Ledger) : RowData(Ledger[i])["status"] = Str(CreatedStatus)

IsPrefix(s, t) == Len(s) <= Len(t) /\ SubSeq(t, 1, Len(s)) = s

\* C19: no step of a dispatch run, from its setup to its return or failure,
\* changes an operation log, and no step at all (an insert with
\* if_exists='append' included, whether it succeeds or fails) removes a log
\* or removes or changes a record a log holds.
C19_LogIsReadOnly ==
    [][\A t \in OpsTables :
          /\ tables[t].exists => tables'[t].exists
          /\ IsPrefix(tables[t].rows, tables'[t].rows)
          /\ (pc # "idle" \/ pc' # "idle") => tables'[t] = tables[t]]_vars

\* a run over a log of three records that failed in the builder after it had
\* written the ledger, the log still holding its three records
C19_Witness ==
    /\ pc = "idle"
    /\ error = "BuilderError"
    /\ log_table = "ops"
    /\ Ledger # <<>>
    /\ count_table("ops") = 3
    /\ \A i \in 1..3 : tables["ops"].rows[i].id = i

\* C20: whenever the loop of wait_jobs is at its head or wait_jobs has
\* returned, no (client, job) pair is both in pending and in done, every entry
\* of done holds DONE or CANCELED, every entry of pending holds a status
\* other than these and so does its ledger row, and every account of pending
\* has at least one job.
C20_CollectionPartition ==
    Reconciled =>
       /\ PendingPairs(jobs.pending) \cap DonePairs = {}
       /\ \A p \in DonePairs :
             jobs.done[p[1]][p[2]]["status"] \in {Str("DONE"), Str("CANCELED")}
       /\ \A p \in PendingPairs(jobs.pending) :
             /\ jobs.pending[p[1]][p[2]].data["status"]
                   \notin {Str("DONE"), Str("CANCELED")}
             /\ \E i \in 1..Len(Ledger) :
                   /\ Ledger[i].id = jobs.pending[p[1]][p[2]].id
                   /\ RowPair(Ledger[i]) = p
                   /\ ~TerminalRow(Ledger[i])
       /\ \A c \in DOMAIN jobs.pending : DOMAIN jobs.pending[c] # {}

\* the loop head after a cycle that moved to done one of the two jobs of an
\* account and the only job of another, whose key left pending
C20_Witness ==
    /\ pc = "wait_loop"
    /\ Len(slept) = 1
    /\ Cardinality(DOMAIN jobs.done) = 2
    /\ Cardinality(DOMAIN jobs.pending) = 1
    /\ DOMAIN jobs.pending \subseteq DOMAIN jobs.done

\* the calls of the run made for one job
CallsOfJob(op, job) == {i \in CallsOf(op) : calls[i].job = job}

\* C21: every upload of a run carries at most batch_size wire operations, a
\* non-final upload exactly batch_size, and an upload carries the operations
\* added to its job since the job's previous upload; while a job is filled,
\* in_batch is the number of operations added to that job alone.
C21_ChunkSize ==
    /\ \A i \in CallsOf("upload_operations") :
          /\ calls[i].n <= batch_size
          /\ ~calls[i].is_last => calls[i].n = batch_size
          /\ calls[i].n = Cardinality({k \in CallsOfJob("add_operation", calls[i].job) :
                               /\ k < i
                               /\ \A u \in CallsOfJob("upload_operations", calls[i].job) :
                                     u < i => u < k})
    /\ (pc \in {"exec_build", "exec_for"} /\ RunJobs > 0) =>
          in_batch = Cardinality(CallsOfJob("add_operation", Len(remote_jobs)))

\* a returned run in which the first job got exactly batch_size operations and
\* the second one more than that
C21_Witness ==
    /\ RunCompleted
    /\ RunJobs = 2
    /\ Cardinality(CallsOfJob("add_operation", run_base + 1)) = batch_size
    /\ Cardinality(CallsOfJob("add_operation", run_base + 2)) = batch_size + 1
    /\ \E i \in CallsOfJob("upload_operations", run_base + 2) : ~calls[i].is_last

\* wait_jobs has collected the ledger and has not polled yet
JustCollected == pc = "wait_loop" /\ slept = <<>>

\* C22: right after collect, pending holds one entry for each ledger row
\* whose stored status is neither DONE nor CANCELED and no other, under the
\* row's account id and job id, made of the row id and the stored payload;
\* dirty and done are empty.
C22_CollectLoadsPending ==
    JustCollected =>
       /\ PendingPairs(jobs.pending)
             = {RowPair(Ledger[i]) : i \in {k \in 1..Len(Ledger) : ~TerminalRow(Ledger[k])}}
       /\ \A i \in 1..Len(Ledger) :
             ~TerminalRow(Ledger[i]) =>
                jobs.pending[Ledger[i].client_id][RowData(Ledger[i])["batchjob_id"]]
                   = [id |-> Ledger[i].id, data |-> RowData(Ledger[i])]
       /\ jobs.dirty = <<>>
       /\ jobs.done = <<>>

\* a collect over a ledger in which one account has a job persisted as
\* terminal by an earlier call and two jobs not yet terminal
C22_Witness ==
    /\ JustCollected
    /\ \E c \in DOMAIN jobs.pending :
          /\ Cardinality(DOMAIN jobs.pending[c]) = 2
          /\ \E i \in 1..Len(Ledger) :
                TerminalRow(Ledger[i]) /\ Ledger[i].client_id = c

\* C23: a pass of the loop of wait_jobs makes one status query, answered for
\* exactly the jobs in pending of all accounts at that moment, and the
\* reconcile that follows makes none; with pending empty the loop is left
\* without a query, and a call that never found a pending job has not
\* instantiated the batch service.
C23_OneQueryPerCycle ==
    /\ [][/\ (pc = "wait_loop" /\ pc' = "wait_reconcile") =>
                /\ jobs.pending # <<>>
                /\ n_queries' = n_queries + 1
                /\ DirtyPairs(jobs'.dirty) = PendingPairs(jobs.pending)
                /\ Cardinality(DirtyItems(jobs'.dirty))
                      = Cardinality(PendingPairs(jobs.pending))
          /\ (pc = "wait_loop" /\ pc' # "wait_reconcile") =>
                /\ jobs.pending = <<>>
                /\ pc' = "idle"
                /\ n_queries' = n_queries
          /\ pc = "wait_reconcile" => n_queries' = n_queries]_vars
    /\ []((pc \in {"wait_loop", "idle"} /\ collected = {})
              => (n_queries = 0 /\ wait_bjs = "None"))

\* the second query of a call, made for the one job still pending after the
\* first query had covered three jobs of two accounts
C23_Witness ==
    /\ pc = "wait_reconcile"
    /\ n_queries = 2
    /\ Cardinality(collected) = 3
    /\ Cardinality({p[1] : p \in collected}) = 2
    /\ Cardinality(DirtyPairs(jobs.dirty)) = 1

\* the number of the add_operation call i among those of its job
AddRank(i) == Cardinality({k \in CallsOfJob("add_operation", calls[i].job) : k <= i})

\* C24: the uploads of a run are placed by the added operations alone,
\* however many empty results the builder yielded between them: the m-th
\* operation added to a job comes right after a non-final upload of that job
\* exactly when m - 1 is a non-zero multiple of batch_size, a non-final upload
\* is always followed by an add to the same job, and the buffer holds the
\* operations added since the job's last upload.
C24_EmptyResultsSkipped ==
    /\ \A i \in CallsOf("add_operation") :
          /\ i > 1
          /\ (calls[i - 1] = Call("upload_operations", calls[i].job, batch_size, FALSE))
                <=> (AddRank(i) > 1 /\ (AddRank(i) - 1) % batch_size = 0)
          /\ calls[i - 1].op \in {"log_batchjob", "add_operation", "upload_operations"}
          /\ calls[i - 1].job = calls[i].job
    /\ \A i \in CallsOf("upload_operations") :
          ~calls[i].is_last =>
             /\ i < Len(calls)
             /\ calls[i + 1].op = "add_operation"
             /\ calls[i + 1].job = calls[i].job
    /\ (pc \in {"exec_build", "exec_for"} /\ RunJobs > 0) =>
          buffer = Cardinality({k \in CallsOfJob("add_operation", Len(remote_jobs)) :
                       \A u \in CallsOfJob("upload_operations", Len(remote_jobs)) : u < k})

\* a returned run whose record gave an empty result before its first
\* operation and whose job got a chunk upload before a later operation
C24_Witness ==
    /\ RunCompleted
    /\ \E i \in CallsOf("add_operation") :
          /\ calls[i].operation[2] = 2
          /\ \A k \in CallsOf("add_operation") :
                calls[k].operation # <<calls[i].operation[1], 1>>
    /\ \E i \in CallsOf("upload_operations") : ~calls[i].is_last

\* the status item of the last response for one (client, job, status) triple
DirtyJobOf(it) ==
    CHOOSE d \in UNION {{jobs.dirty[i][2][j] : j \in 1..Len(jobs.dirty[i][2])} :
                           i \in {n \in 1..Len(jobs.dirty) : jobs.dirty[n][1] = it[1]}} :
        d["id"] = it[2]

InterruptedPair == <<IntVal(remote_jobs[interrupted]), IntVal(interrupted)>>
InterruptedRows == RowsOf(Ledger, InterruptedPair[1], InterruptedPair[2])
InterruptedRow == Ledger[CHOOSE i \in InterruptedRows : TRUE]
Waiting == pc \in {"wait_loop", "wait_reconcile"}

\* C26: when the builder has raised, the job being filled has got no final
\* upload, the operations added to it since its last upload are still in the
\* buffer, and its one ledger row holds a non-terminal status; in a wait_jobs
\* call made after that the job is pending as long as its row is not
\* terminal, every response covers it while it is pending, the call does not
\* return while it is pending, and its row becomes terminal only in a
\* reconcile of a response that reported it DONE or CANCELED.  No call of a
\* later run names a job of an earlier run.
C26_BuilderErrorLeavesJobPending ==
    /\ [](\A i \in 1..Len(calls) : calls[i].job > run_base)
    /\ [](error = "BuilderError" =>
            /\ pc = "idle"
            /\ interrupted = Len(remote_jobs)
            /\ \A i \in CallsOfJob("upload_operations", interrupted) :
                  ~calls[i].is_last
            /\ buffer = Cardinality(
                  {k \in CallsOfJob("add_operation", interrupted) :
                      \A u \in CallsOfJob("upload_operations", interrupted) : u < k})
            /\ Cardinality(InterruptedRows) = 1
            /\ ~TerminalRow(InterruptedRow))
    /\ []((interrupted # 0 /\ Waiting) =>
            /\ (InterruptedPair \in PendingPairs(jobs.pending))
                  <=> ~TerminalRow(InterruptedRow)
            /\ (pc = "wait_reconcile" /\ InterruptedPair \in PendingPairs(jobs.pending))
                  => InterruptedPair \in DirtyPairs(jobs.dirty))
    /\ [][(interrupted # 0 /\ interrupted' = interrupted) =>
            /\ (Waiting /\ pc' = "idle" /\ error' = "none")
                  => InterruptedPair \notin PendingPairs(jobs.pending)
            /\ (~TerminalRow(InterruptedRow) /\ TerminalRow(InterruptedRow)')
                  => /\ pc = "wait_reconcile"
                     /\ \E it \in cur_dirty :
                           /\ <<it[1], it[2]>> = InterruptedPair
                           /\ Terminal(it[3])]_vars

\* the builder raised after a chunk upload with an operation in the buffer
C26_Witness ==
    /\ error = "BuilderError"
    /\ buffer > 0
    /\ CallsOfJob("upload_operations", interrupted) # {}

\* wait_jobs after a builder error: the job was polled twice and is pending
C26_WitnessPolled ==
    /\ interrupted # 0
    /\ pc = "wait_loop"
    /\ Len(slept) = 2
    /\ InterruptedPair \in PendingPairs(jobs.pending)

\* the (client, job, status) items of a response in the order the loop of
\* _update_jobs_status takes them: last account first, its jobs in order
RECURSIVE ProcessingOrder(_)
ProcessingOrder(dirty) ==
    IF dirty = <<>>
    THEN <<>>
    ELSE LET item == dirty[Len(dirty)]
         IN  [j \in 1..Len(item[2]) |->
                 <<item[1], item[2][j]["id"], item[2][j]["status"]>>]
             \o ProcessingOrder(SubSeq(dirty, 1, Len(dirty) - 1))
\* the positions of the items naming a job that is not pending when its turn
\* comes: not collected, or reported terminal earlier in the same response
StrayAt(order) ==
    {n \in 1..Len(order) :
        \/ <<order[n][1], order[n][2]>> \notin PendingPairs(jobs.pending)
        \/ \E k \in 1..(n - 1) : /\ order[k][1] = order[n][1]
                                 /\ order[k][2] = order[n][2]
                                 /\ order[k][3] \in {Str("DONE"), Str("CANCELED")}}
\* the jobs reported with a terminal status before position n
TerminalBefore(order, n) ==
    {<<order[k][1], order[k][2]>> : k \in {m \in 1..(n - 1) :
                                            order[m][3] \in {Str("DONE"), Str("CANCELED")}}}

\* C27: a reconcile of a response that names a job which is not pending when
\* its turn comes ends with a KeyError and leaves every table as it was,
\* while the jobs reported terminal before that item are out of pending and
\* in done although their ledger rows are not terminal; a reconcile of any
\* other response raises no KeyError.
C27_StrayJobFails ==
    [][(pc = "wait_reconcile" /\ pc' # "wait_reconcile") =>
         LET order == ProcessingOrder(jobs.dirty)
             stray == StrayAt(order)
         IN  IF stray # {}
             THEN /\ error' = "KeyError"
                  /\ pc' = "idle"
                  /\ tables' = tables
                  /\ \A p \in TerminalBefore(order, Min(stray)) :
                        /\ p \notin PendingPairs(jobs'.pending)
                        /\ p \in PendingPairs(jobs'.done)
                        /\ \E i \in RowsOf(Ledger', p[1], p[2]) :
                              ~TerminalRow(Ledger'[i])
             ELSE error' # "KeyError"]_vars

\* a reconcile failed on a job named twice: the job is in done in memory and
\* its ledger row is not terminal
C27_Witness ==
    /\ error = "KeyError"
    /\ pc = "idle"
    /\ UnknownJob \notin {p[2] : p \in DirtyPairs(jobs.dirty)}
    /\ \E p \in PendingPairs(jobs.done) :
          \E i \in RowsOf(Ledger, p[1], p[2]) : ~TerminalRow(Ledger[i])

\* C28: no step of a dispatch run changes or removes a ledger row; the step
\* that logs a job appends one row, which holds the job's id, its upload
\* URL, its account id (in the payload and in the account column), the status
\* reported at creation and an empty result URL, and no other step adds a
\* row: outside that step the ledger holds one row per job created, so that
\* over a run it grows by the number of jobs the run created.
C28_OneRowPerJob ==
    /\ [](pc # "exec_log" => Len(Ledger) = Len(remote_jobs))
    /\ [](pc = "exec_log" => Len(Ledger) = Len(remote_jobs) - 1)
    /\ [][/\ IsPrefix(Ledger, Ledger')
          /\ Len(Ledger') = Len(Ledger) + (IF pc = "exec_log" THEN 1 ELSE 0)
          /\ pc = "exec_log" =>
                LET row == Ledger'[Len(Ledger')]
                    job == Len(remote_jobs)
                IN  /\ row.client_id = IntVal(remote_jobs[job])
                    /\ \A i \in 1..Len(Ledger) : Ledger[i].id # row.id
                    /\ RowData(row)["batchjob_id"] = IntVal(job)
                    /\ RowData(row)["upload_url"] = Str("upload")
                    /\ RowData(row)["client_id"] = IntVal(remote_jobs[job])
                    /\ RowData(row)["status"] = Str(CreatedStatus)
                    /\ RowData(row)["result_url"] = Str("")]_vars

\* a second run has returned after creating two jobs: the ledger holds the
\* row of the first run and two more
C28_Witness ==
    /\ RunCompleted
    /\ run_base = 1
    /\ RunJobs = 2
    /\ Len(Ledger) = 3

\* the fields log_batchjob stores and a reconcile update does not
DispatchOnlyKeys == {"upload_url", "creation_time", "metadata"}

\* C29: a row written by a reconcile holds none of the upload URL, the
\* creation time and the comment stored at dispatch, and a row that has lost
\* them never gets them back; a row a reconcile has not written still holds
\* all three; every ledger row, updated or not, holds a job id and a status,
\* which is all that get_batchjobs reads of it.
C29_UpdateReplacesPayload ==
    /\ [](\A i \in 1..Len(Ledger) :
            /\ {"batchjob_id", "status"} \subseteq DOMAIN RowData(Ledger[i])
            /\ RowData(Ledger[i])["status"] \in {Str(v) : v \in StatusValues}
            /\ \/ DispatchOnlyKeys \subseteq DOMAIN RowData(Ledger[i])
               \/ DispatchOnlyKeys \cap DOMAIN RowData(Ledger[i]) = {})
    /\ [][\A i \in 1..Len(Ledger) :
            /\ (pc = "wait_reconcile" /\ Ledger[i].id \in last_updates')
                  => DispatchOnlyKeys \cap DOMAIN RowData(Ledger'[i]) = {}
            /\ (DispatchOnlyKeys \cap DOMAIN RowData(Ledger[i]) = {})
                  => DispatchOnlyKeys \cap DOMAIN RowData(Ledger'[i]) = {}
            /\ (DispatchOnlyKeys \subseteq DOMAIN RowData(Ledger[i])
                 /\ ~(pc = "wait_reconcile" /\ Ledger[i].id \in last_updates'))
                  => Ledger'[i] = Ledger[i]]_vars

\* a later wait_jobs call has collected a job whose row an earlier call
\* updated: the row is without the dispatch fields and the job is pending
C29_Witness ==
    /\ JustCollected
    /\ \E i \in 1..Len(Ledger) :
          /\ DispatchOnlyKeys \cap DOMAIN RowData(Ledger[i]) = {}
          /\ RowPair(Ledger[i]) \in PendingPairs(jobs.pending)

\* a step that is a sync_objects call, and what its failure looks like: a
\* KeyError with the ledger table ensured, no remote job created and no call
\* made to the batch service
SyncCall == pc = "idle" /\ log_table' \in OpsTables
SyncFailure ==
    /\ error' = "KeyError"
    /\ pc' = "idle"
    /\ tables'[BatchlogTable].exists
    /\ BatchlogTable \in table_models'
    /\ \A t \in OpsTables : tables'[t] = tables[t]
    /\ remote_jobs' = remote_jobs
    /\ calls' = <<>>

AllNumbers(entries) == UNION {NumbersOf(entries[i]) : i \in 1..Len(entries)}
\* the cached minimum id of a table, 0 when there is none
CachedOrZero(t) == IF t \in DOMAIN table_min_id THEN table_min_id[t] ELSE 0

\* C31 as stated: the cached minimum id of a log is the least of 0 and the
\* floored finite non-zero numbers of every entry passed to insert or
\* dump_table since the last clear of the log.
C31_MinOfEveryEntry ==
    \A t \in OpsTables :
        t \in DOMAIN table_min_id => table_min_id[t] = passed_min[t]

\* C31, amended: a cached minimum id is at most 0 and not below the least
\* number passed for its log since the last clear; no step raises it, and
\* only a clear removes it, a replace of the records included; a call of
\* insert or dump_table that returns without error leaves the least of the
\* value cached before (0 if none) and the numbers of its entries, which
\* is the least over all the entries the log then holds.
C31_MinIdNeverRises ==
    /\ [](\A t \in DOMAIN table_min_id :
            /\ table_min_id[t] <= 0
            /\ passed_min[t] <= table_min_id[t]
            /\ t \in attempts)
    /\ [][\A t \in OpsTables :
            /\ (t \in DOMAIN table_min_id /\ t \in DOMAIN table_min_id')
                  => table_min_id'[t] <= table_min_id[t]
            /\ (t \in DOMAIN table_min_id /\ t \notin DOMAIN table_min_id')
                  => /\ tables'[t] = NoTable
                     /\ t \notin table_models'
                     /\ t \notin attempts'
            /\ (error' = "none" /\ t \in attempts')
                  => /\ t \in DOMAIN table_min_id'
                     /\ table_min_id'[t] =
                           Min({CachedOrZero(t)} \cup AllNumbers(inserted'[t]))]_vars

\* a replace has dropped the record that gave the minimum: the log holds one
\* record whose least number is above the cached minimum id
C31_Witness ==
    /\ error = "none"
    /\ dropped = {}
    /\ count_table("ops") = 1
    /\ AllNumbers(inserted["ops"]) = {1, -2}
    /\ "ops" \in DOMAIN table_min_id
    /\ table_min_id["ops"] = -3

\* the numeric minima, in halves, among the first n column outcomes of the call
NumericMinima(n) ==
    {min_call.columns[i].halves :
        i \in {k \in 1..n : /\ min_call.columns[k] \notin {Unreadable, None}
                             /\ min_call.columns[k].kind = "num"}}
\* the columns of the call whose minimum is a text
TextColumns ==
    {i \in 1..Len(min_call.columns) :
        /\ min_call.columns[i] \notin {Unreadable, None}
        /\ min_call.columns[i].kind = "str"}

\* C32: a call of get_min_value whose readable column minima are numbers or
\* NULL returns, and returns the least of 0 and those numbers: 0 when none
\* of them is negative or no column could be read, never more than 0; during
\* the loop min_value is that least value over the columns passed so far,
\* whatever columns among them failed or were NULL.
C32_MinOfZeroAndColumns ==
    /\ min_call.pc \in {"loop", "returned"} =>
          /\ min_call.min_value.kind = "num"
          /\ min_call.min_value.halves = Min({0} \cup NumericMinima(min_call.pos - 1))
          /\ min_call.min_value.halves <= 0
    /\ min_call.pc = "returned" =>
          /\ min_call.pos = Len(min_call.columns) + 1
          /\ (\A h \in NumericMinima(Len(min_call.columns)) : h >= 0)
                => min_call.min_value = Num(0)
    /\ min_call.pc = "raised" => min_call.pos \in TextColumns
    /\ TextColumns = {} => min_call.pc # "raised"

\* a call has returned -2 for a column of minimum -1.5, a column that could
\* not be read and a column of minimum -2
C32_Witness ==
    /\ min_call.pc = "returned"
    /\ min_call.columns = <<Num(-3), Unreadable, Num(-4)>>
    /\ min_call.min_value = Num(-4)

\* a call has returned 0 for a NULL column and a column of minimum 1.5
C32_WitnessZero ==
    /\ min_call.pc = "returned"
    /\ min_call.columns = <<None, Num(3)>>
    /\ min_call.min_value = Num(0)
====
